---- MODULE Spec2Model ----
(***************************************************************************)
(* A model of the control plane of the agent orchestration platform:       *)
(*   - CoordinationService   (api/services/coordination.py)                *)
(*   - knowledge drift and consensus (api/services/knowledge_drift.py,     *)
(*     api/resources/kg_consensus.py, api/resources/knowledge.py)          *)
(*   - SelfHealingService    (api/services/self_healing.py)                *)
(*   - AgentLifecycleManager (api/services/autonomy/                       *)
(*     agent_lifecycle_manager.py)                                         *)
(* Each subsystem has its own next-state relation and specification; the   *)
(* variables of the other subsystems stay at their initial values.         *)
(* Fractions are integers in hundredths: workload 1.0 is 100, a            *)
(* performance score of 0.8 is 80.                                         *)
(***************************************************************************)
EXTENDS Integers, Sequences, FiniteSets, TLC

VARIABLES
    agents,        \* CoordinationService._agents: agent id -> AgentInfo
    agentOrder,    \* insertion order of the keys of _agents
    assignments,   \* TaskAssignment nodes of the graph store (their agentId), in creation order
    decisions,     \* CoordDecision nodes of the graph store, in creation order
    allocPc,       \* where each thread running allocate_task is
    allocLocal,    \* per such thread, the agent it chose and the workload it read
    lastCoord,     \* the last coordination call and what it returned
    scores,        \* StrategySelector._scores: strategy name -> {success, attempts}
    healingAttempts, \* HealingAttempt nodes of the graph store, in creation order
    replicas,      \* replicas of the service behind the scaler adapter, relative to the start
    healCalls,     \* number of heal calls made so far
    lastHeal,      \* the last heal call and what it returned
    entities,      \* ids of the Entity nodes of the graph store
    mergedInto,    \* Entity.mergedInto, NoEntity when unset
    relations,     \* RELATED edges: (subject, predicate, object) -> properties
    votes,         \* VOTED edges on the conflict (Subject, Predicate): voter, object -> value
    resolutionRequests, \* ResolutionRequest nodes: (subject, predicate) -> properties
    clock,         \* the graph store's timestamp(), one tick per write
    lastKG,        \* the last knowledge-graph call and what it returned
    activeRequests,  \* AgentLifecycleManager._active_requests (its keys)
    pc,              \* where the worker thread of each creation request is
    stagesRun,       \* per request, the pipeline stages that have run, in order
    requestEvents,   \* per request, the lifecycle events published with its id
    artifacts,       \* per request, its nodes in the graph store
    deployedAgents,  \* AgentLifecycleManager._deployed_agents (its keys)
    deployedAt,      \* deployed_at of the entries of _deployed_agents
    deployedGraph,   \* DeployedAgent nodes of the graph store
    agentEvents,     \* per agent id, the retirement events published with it
    retireCalls,     \* number of retire_agent calls so far
    lastLife,        \* the last retire_agent call or retirement assessment and its result
    running,         \* AgentLifecycleManager._running
    loopPc,          \* where each background loop thread is
    lastMgr,         \* the last start() or stop() call and what it did
    probe            \* the last call of a pure function: its inputs and result

coordVars == <<agents, agentOrder, assignments, decisions, allocPc, allocLocal, lastCoord>>
healVars == <<scores, healingAttempts, replicas, healCalls, lastHeal>>
kgVars == <<entities, mergedInto, relations, votes, resolutionRequests, clock, lastKG>>

mgrVars == <<running, loopPc, lastMgr>>

lifeVars == <<activeRequests, pc, stagesRun, requestEvents, artifacts,
              deployedAgents, deployedAt, deployedGraph, agentEvents, retireCalls,
              lastLife>>

vars == <<agents, agentOrder, assignments, decisions, allocPc, allocLocal, lastCoord,
          scores, healingAttempts, replicas, healCalls, lastHeal,
          entities, mergedInto, relations, votes, resolutionRequests, clock, lastKG,
          activeRequests, pc, stagesRun, requestEvents, artifacts,
          deployedAgents, deployedAt, deployedGraph, agentEvents, retireCalls, lastLife,
          running, loopPc, lastMgr,
          probe>>

\* What the operations of one subsystem leave alone: the other subsystems.
notCoord == <<healVars, kgVars, lifeVars, mgrVars, probe>>
notHeal == <<coordVars, kgVars, lifeVars, mgrVars, probe>>
notKG == <<coordVars, healVars, lifeVars, mgrVars, probe>>
notLife == <<coordVars, healVars, kgVars, mgrVars, probe>>
notProbe == <<coordVars, healVars, kgVars, lifeVars, mgrVars>>
notManager == <<coordVars, healVars, kgVars, probe>>

NoProbe == [op |-> "none"]

Min(a, b) == IF a <= b THEN a ELSE b
Max(a, b) == IF a >= b THEN a ELSE b

\* The elements of a sequence, as a set.
Range(s) == {s[i] : i \in 1..Len(s)}

IsPrefix(s, t) == Len(s) <= Len(t) /\ \A i \in 1..Len(s) : s[i] = t[i]

(***************************************************************************)
(* Coordination Service                                                    *)
(***************************************************************************)

\* Bounds of the coordination model: the assignments recorded, and the
\* threads that run allocate_task at the same time.
MaxAssignments == 2
MaxThreads == 2

Threads == 1..MaxThreads
NoLocal == [chosen |-> "none", workload |-> 0]

AgentIds == {"a1", "a2"}
Capabilities == {"analyze", "plan"}
Priorities == {0, 1, 2}
\* SLA weights in tenths (10 is the default weight 1.0).
SlaWeights == {0, 10}
\* The forecasts a predictor may return for the agents, in hundredths (0 also
\* stands for no predictor and for a predictor that raises).
Predictors ==
    { [a \in AgentIds |-> 0],
      [a \in AgentIds |-> IF a = "a1" THEN 50 ELSE 0] }
\* Workloads a heartbeat may report, in hundredths; None is "no workload given".
NoWorkload == 999
HeartbeatWorkloads == {-20, 95, 130, NoWorkload}

\* What registerAgent may be called with.
AgentProfiles ==
    { [role |-> "strategic",   caps |-> {"analyze", "plan"}, perf |-> 80],
      [role |-> "tactical",    caps |-> {"analyze"},         perf |-> 60],
      [role |-> "operational", caps |-> {},                  perf |-> 60] }

Unregistered ==
    [reg |-> FALSE, role |-> "none", caps |-> {}, perf |-> 0, workload |-> 0]

\* AgentInfo(id, role, capabilities, perf_score): workload defaults to 0.0.
AgentInfo(p) ==
    [reg |-> TRUE, role |-> p.role, caps |-> p.caps, perf |-> p.perf, workload |-> 0]

Tasks == [requirements : SUBSET Capabilities, priority : Priorities]

NoCall == [op |-> "none", agent |-> "none", requirements |-> {},
           status |-> "none", chosen |-> "none"]

\* A variant of ClampWorkload without the upper limit.
ClampWorkloadBelow(w) == Max(0, w)

\* heartbeat clamps the reported workload to [0, 1].
ClampWorkload(w) == Max(0, Min(100, w))

\* A variant of BumpWorkload without the cap at 1.0.
BumpWorkloadUncapped(w) == w + 10

\* allocate_task: the workload of the chosen agent after the allocation.
BumpWorkload(w) == Min(100, w + 10)

\* A variant of IsCandidate that asks for any requirement instead of all.
IsCandidateAny(a, task) ==
    agents[a].reg /\ (\E r \in task.requirements : r \in agents[a].caps)

\* allocate_task: the agents whose capabilities hold every requirement, in the
\* iteration order of the registry.
IsCandidate(a, task) == agents[a].reg /\ task.requirements \subseteq agents[a].caps

Candidates(task) == SelectSeq(agentOrder, LAMBDA a : IsCandidate(a, task))

RoleBonus(a, task) ==
    IF task.priority >= 2 /\ agents[a].role = "strategic" THEN 10
    ELSE IF task.priority = 1 /\ agents[a].role = "tactical" THEN 5
    ELSE IF task.priority = 0 /\ agents[a].role = "operational" THEN 5
    ELSE 0

\* score(a), times 1000: sla_weight * (perf + bonus) - 0.5 * workload - 0.3 * predicted.
ScoreOf(sla, perf, bonus, workload, predicted) ==
    sla * (perf + bonus) - 5 * workload - 3 * predicted

Score(a, task, sla, predicted) ==
    ScoreOf(sla, agents[a].perf, RoleBonus(a, task), agents[a].workload, predicted[a])

\* max(candidates, key=score): the first candidate of maximal score.
Chosen(task, sla, predicted) ==
    LET c == Candidates(task)
        best(i) == \A j \in 1..Len(c) :
                       Score(c[j], task, sla, predicted) <= Score(c[i], task, sla, predicted)
        first == CHOOSE i \in 1..Len(c) : best(i) /\ \A j \in 1..(i - 1) : ~best(j)
    IN c[first]

RegisterAgent(a, p) ==
    /\ agents' = [agents EXCEPT ![a] = AgentInfo(p)]
    /\ agentOrder' = IF a \in Range(agentOrder) THEN agentOrder ELSE Append(agentOrder, a)
    /\ lastCoord' = [NoCall EXCEPT !.op = "register", !.agent = a, !.status = "registered"]
    /\ UNCHANGED <<assignments, decisions, allocPc, allocLocal, notCoord>>

Heartbeat(a, w) ==
    /\ IF ~agents[a].reg
       THEN /\ lastCoord' = [NoCall EXCEPT !.op = "heartbeat", !.agent = a,
                                           !.status = "unknown_agent"]
            /\ UNCHANGED agents
       ELSE /\ agents' = IF w = NoWorkload THEN agents
                         ELSE [agents EXCEPT ![a].workload = ClampWorkload(w)]
            /\ lastCoord' = [NoCall EXCEPT !.op = "heartbeat", !.agent = a, !.status = "ok"]
    /\ UNCHANGED <<agentOrder, assignments, decisions, allocPc, allocLocal, notCoord>>

\* allocate_task(task, sla, predict); writeOk is whether the graph store accepts
\* the CREATE of the TaskAssignment (run_query raises otherwise).
AllocateTask(task, sla, predicted, writeOk) ==
    /\ Len(assignments) < MaxAssignments
    /\ IF Candidates(task) = <<>>
       THEN /\ lastCoord' = [NoCall EXCEPT !.op = "allocate",
                                 !.requirements = task.requirements,
                                 !.status = "no_capable_agent"]
            /\ UNCHANGED <<agents, assignments>>
       ELSE LET chosen == Chosen(task, sla, predicted) IN
            IF ~writeOk
            THEN /\ lastCoord' = [NoCall EXCEPT !.op = "allocate",
                                      !.requirements = task.requirements,
                                      !.status = "raised"]
                 /\ UNCHANGED <<agents, assignments>>
            ELSE /\ assignments' = Append(assignments, [agentId |-> chosen])
                 /\ agents' = [agents EXCEPT ![chosen].workload = BumpWorkload(@)]
                 /\ lastCoord' = [NoCall EXCEPT !.op = "allocate",
                                      !.requirements = task.requirements,
                                      !.status = "allocated",
                                      !.chosen = chosen]
    /\ UNCHANGED <<agentOrder, decisions, allocPc, allocLocal, notCoord>>

InitCoord ==
    /\ agents = [a \in AgentIds |-> Unregistered]
    /\ agentOrder = <<>>
    /\ assignments = <<>>
    /\ decisions = <<>>
    /\ allocPc = [t \in Threads |-> "idle"]
    /\ allocLocal = [t \in Threads |-> NoLocal]
    /\ lastCoord = NoCall

NextCoord ==
    \/ \E a \in AgentIds, p \in AgentProfiles : RegisterAgent(a, p)
    \/ \E a \in AgentIds, w \in HeartbeatWorkloads : Heartbeat(a, w)
    \/ \E t \in Tasks, sla \in SlaWeights, predicted \in Predictors,
          writeOk \in BOOLEAN : AllocateTask(t, sla, predicted, writeOk)

\* allocate_task run by a thread of a server that holds no lock around it,
\* in three steps: up to the CREATE of the TaskAssignment; the read of
\* chosen.workload; the store of min(1.0, that + 0.1) into chosen.workload.
\* Another thread may run between any two of them.
AllocChoose(t, task, sla, predicted, writeOk) ==
    /\ allocPc[t] = "idle"
    /\ Len(assignments) < MaxAssignments
    /\ IF Candidates(task) = <<>>
       THEN /\ lastCoord' = [NoCall EXCEPT !.op = "allocate",
                                 !.requirements = task.requirements,
                                 !.status = "no_capable_agent"]
            /\ UNCHANGED <<assignments, allocPc, allocLocal>>
       ELSE IF ~writeOk
       THEN /\ lastCoord' = [NoCall EXCEPT !.op = "allocate",
                                 !.requirements = task.requirements,
                                 !.status = "raised"]
            /\ UNCHANGED <<assignments, allocPc, allocLocal>>
       ELSE /\ assignments' = Append(assignments,
                                     [agentId |-> Chosen(task, sla, predicted)])
            /\ allocLocal' = [allocLocal EXCEPT ![t] =
                                  [NoLocal EXCEPT !.chosen = Chosen(task, sla, predicted)]]
            /\ allocPc' = [allocPc EXCEPT ![t] = "created"]
            /\ UNCHANGED lastCoord
    /\ UNCHANGED <<agents, agentOrder, decisions, notCoord>>

AllocRead(t) ==
    /\ allocPc[t] = "created"
    /\ allocLocal' = [allocLocal EXCEPT ![t].workload = agents[allocLocal[t].chosen].workload]
    /\ allocPc' = [allocPc EXCEPT ![t] = "read"]
    /\ UNCHANGED <<agents, agentOrder, assignments, decisions, lastCoord, notCoord>>

AllocWrite(t) ==
    /\ allocPc[t] = "read"
    /\ agents' = [agents EXCEPT ![allocLocal[t].chosen].workload =
                                    BumpWorkload(allocLocal[t].workload)]
    /\ allocPc' = [allocPc EXCEPT ![t] = "idle"]
    /\ allocLocal' = [allocLocal EXCEPT ![t] = NoLocal]
    /\ lastCoord' = [NoCall EXCEPT !.op = "allocate", !.status = "allocated",
                                   !.chosen = allocLocal[t].chosen]
    /\ UNCHANGED <<agentOrder, assignments, decisions, notCoord>>

\* Agents are registered once; allocations then run concurrently.
NextRace ==
    \/ \E a \in AgentIds, p \in AgentProfiles : ~agents[a].reg /\ RegisterAgent(a, p)
    \/ \E t \in Threads, task \in Tasks, sla \in SlaWeights, predicted \in Predictors,
          writeOk \in BOOLEAN : AllocChoose(t, task, sla, predicted, writeOk)
    \/ \E t \in Threads : AllocRead(t)
    \/ \E t \in Threads : AllocWrite(t)

\* Bound of the consensus model: the number of decisions recorded.
MaxDecisions == 1

\* participants of a consensus call (an id may be listed twice).
ParticipantLists == {<<>>, <<"a1">>, <<"a2">>, <<"a1", "a2">>, <<"a1", "a1">>}
\* weights of a consensus call, in hundredths; NoWeight is "no override".
NoWeight == 999
WeightOverrides ==
    { [a \in AgentIds |-> NoWeight],
      [a \in AgentIds |-> 0],
      [a \in AgentIds |-> IF a = "a1" THEN 30 ELSE NoWeight] }

\* The weight of a registered participant, times 10000:
\* weights.get(pid, max(0.1, perf_score * (1.0 - workload))).
VoteWeight(a, weights) ==
    IF weights[a] # NoWeight THEN 100 * weights[a]
    ELSE Max(1000, agents[a].perf * (100 - agents[a].workload))

\* sum(w for _, w in votes), the unregistered participants skipped.
RECURSIVE VoteSum(_, _)
VoteSum(participants, weights) ==
    IF participants = <<>> THEN 0
    ELSE (IF agents[Head(participants)].reg THEN VoteWeight(Head(participants), weights)
          ELSE 0)
         + VoteSum(Tail(participants), weights)

\* total = sum(...) or 1.0
VoteTotal(participants, weights) ==
    IF VoteSum(participants, weights) = 0 THEN 10000 ELSE VoteSum(participants, weights)

\* consensus(participants, proposal, weights); writeOk is whether the graph
\* store accepts the CREATE of the CoordDecision (run_query raises otherwise).
Consensus(participants, weights, writeOk) ==
    LET total == VoteTotal(participants, weights)
        passed == total >= 5000
        call == [op |-> "consensus", participants |-> participants, weights |-> weights]
    IN /\ Len(decisions) < MaxDecisions
       /\ IF writeOk
          THEN /\ decisions' = Append(decisions, [kind |-> "consensus",
                                                  weightSum |-> total, passed |-> passed])
               /\ lastCoord' = call @@ [status |-> "decided", passed |-> passed]
          ELSE /\ lastCoord' = call @@ [status |-> "raised", passed |-> FALSE]
               /\ UNCHANGED decisions
       /\ UNCHANGED <<agents, agentOrder, assignments, allocPc, allocLocal, notCoord>>

NextAgreement ==
    \/ \E a \in AgentIds, p \in AgentProfiles : RegisterAgent(a, p)
    \/ \E a \in AgentIds, w \in HeartbeatWorkloads : Heartbeat(a, w)
    \/ \E participants \in ParticipantLists, weights \in WeightOverrides,
          writeOk \in BOOLEAN : Consensus(participants, weights, writeOk)

\* The allocation score as a function of its inputs: two agents a and b of
\* one role, scored for one task with one SLA weight and one forecast.
\* float(sla.get("weight")) takes any number, a negative one included.
ScoreSlaWeights == {-10, 0, 10}
ScorePerfs == {0, 50, 100}
ScoreWorkloads == {0, 50, 100}
ScoreBonuses == {0, 5, 10}
ScoreForecasts == {0, 50}

ScoreProbe(sla, bonus, predicted, perfA, perfB, workloadA, workloadB) ==
    /\ probe' = [op |-> "score", sla |-> sla,
                 perfA |-> perfA, perfB |-> perfB,
                 workloadA |-> workloadA, workloadB |-> workloadB,
                 scoreA |-> ScoreOf(sla, perfA, bonus, workloadA, predicted),
                 scoreB |-> ScoreOf(sla, perfB, bonus, workloadB, predicted)]
    /\ UNCHANGED notProbe

NextScore ==
    \E sla \in ScoreSlaWeights, bonus \in ScoreBonuses, predicted \in ScoreForecasts,
       perfA \in ScorePerfs, perfB \in ScorePerfs,
       workloadA \in ScoreWorkloads, workloadB \in ScoreWorkloads :
        ScoreProbe(sla, bonus, predicted, perfA, perfB, workloadA, workloadB)

(***************************************************************************)
(* Event publishing of the coordination service                            *)
(***************************************************************************)

\* Where a publish runs: whether pika could be imported, whether RABBITMQ_URL
\* is set, whether RABBITMQ_PORT reads as a number, and whether the broker
\* takes the connection and the message.
PublishEnvs ==
    { [pika |-> TRUE,  url |-> TRUE,  portIsNumber |-> TRUE,  broker |-> TRUE],
      [pika |-> TRUE,  url |-> FALSE, portIsNumber |-> TRUE,  broker |-> FALSE],
      [pika |-> FALSE, url |-> FALSE, portIsNumber |-> TRUE,  broker |-> FALSE],
      [pika |-> TRUE,  url |-> FALSE, portIsNumber |-> FALSE, broker |-> TRUE] }

\* _get_connection_params(): without RABBITMQ_URL it computes
\* int(os.getenv("RABBITMQ_PORT", "5672")) first, which raises ValueError when
\* the variable is not a number.
GetConnectionParams(env) ==
    IF ~env.url /\ ~env.portIsNumber THEN "raise"
    ELSE IF env.pika THEN "params" ELSE "none"

\* publish_exchange / publish_exchange_profiled: "true" and "false" are the
\* values returned, "raise" is an exception leaving the function. The call of
\* _get_connection_params() stands before the try block.
PublishExchange(env) ==
    IF ~env.pika THEN "false"
    ELSE IF GetConnectionParams(env) = "raise" THEN "raise"
    ELSE IF GetConnectionParams(env) = "none" THEN "false"
    ELSE IF env.broker THEN "true" ELSE "false"

\* What the calls of this part are made with.
PublishProfiles == { [role |-> "strategic", caps |-> {"analyze", "plan"}, perf |-> 80] }
PublishWorkloads == {95, NoWorkload}
PublishTasks == { [requirements |-> {"analyze"}, priority |-> 1],
                  [requirements |-> {"plan"},    priority |-> 2] }
PartyLists == {<<>>, <<"a1", "a2">>}
ConflictPriorities == { [a \in AgentIds |-> 0],
                        [a \in AgentIds |-> IF a = "a2" THEN 1 ELSE 0] }
NoForecast == [a \in AgentIds |-> 0]
NoOverride == [a \in AgentIds |-> NoWeight]

\* The state and the result a call leaves behind (the graph store takes the
\* writes of this part).
Outcome(ags, order, asg, dec, status, result) ==
    [agents |-> ags, agentOrder |-> order, assignments |-> asg, decisions |-> dec,
     status |-> status, result |-> result]

\* register_agent: the agent is stored, then the event is published.
RegisterAgentOutcome(a, p, published) ==
    Outcome([agents EXCEPT ![a] = AgentInfo(p)],
            IF a \in Range(agentOrder) THEN agentOrder ELSE Append(agentOrder, a),
            assignments, decisions,
            IF published = "raise" THEN "raised" ELSE "registered",
            IF published = "raise" THEN "none" ELSE a)

\* heartbeat: an unknown agent returns before anything is published.
HeartbeatOutcome(a, w, published) ==
    IF ~agents[a].reg
    THEN Outcome(agents, agentOrder, assignments, decisions, "unknown_agent", 0)
    ELSE LET workload == IF w = NoWorkload THEN agents[a].workload ELSE ClampWorkload(w)
         IN Outcome([agents EXCEPT ![a].workload = workload],
                    agentOrder, assignments, decisions,
                    IF published = "raise" THEN "raised" ELSE "ok",
                    IF published = "raise" THEN 0 ELSE workload)

\* allocate_task: the TaskAssignment is created, the event is published, and
\* only then is the workload of the chosen agent raised.
AllocateTaskOutcome(task, published) ==
    IF Candidates(task) = <<>>
    THEN Outcome(agents, agentOrder, assignments, decisions, "no_capable_agent", "none")
    ELSE LET chosen == Chosen(task, 10, NoForecast)
             created == Append(assignments, [agentId |-> chosen])
         IN IF published = "raise"
            THEN Outcome(agents, agentOrder, created, decisions, "raised", "none")
            ELSE Outcome([agents EXCEPT ![chosen].workload = BumpWorkload(@)],
                         agentOrder, created, decisions, "allocated", chosen)

\* rebalance: the plan is published, then one migration per pair when asked
\* to apply; nothing is stored.
Overloaded == SelectSeq(agentOrder, LAMBDA a : agents[a].workload > 80)
Underloaded == SelectSeq(agentOrder, LAMBDA a : agents[a].workload < 30)

RebalanceOutcome(apply, published) ==
    Outcome(agents, agentOrder, assignments, decisions,
            IF published = "raise" THEN "raised" ELSE "planned",
            IF published = "raise" THEN <<>> ELSE <<Overloaded, Underloaded>>)

\* resolve_conflict: the registered parties, the first of them of the highest
\* (priority, -workload).
Parties(parties) == SelectSeq(parties, LAMBDA a : agents[a].reg)

ConflictWinner(parties, priority) ==
    LET c == Parties(parties)
        better(a, b) == \/ priority[a] > priority[b]
                        \/ priority[a] = priority[b] /\ agents[a].workload < agents[b].workload
        best(i) == \A j \in 1..Len(c) : ~better(c[j], c[i])
        first == CHOOSE i \in 1..Len(c) : best(i) /\ \A j \in 1..(i - 1) : ~best(j)
    IN c[first]

ResolveConflictOutcome(parties, priority, published) ==
    IF Parties(parties) = <<>>
    THEN Outcome(agents, agentOrder, assignments, decisions, "no_parties", "none")
    ELSE LET winner == ConflictWinner(parties, priority)
             created == Append(decisions, [kind |-> "conflict", winner |-> winner])
         IN IF published = "raise"
            THEN Outcome(agents, agentOrder, assignments, created, "raised", "none")
            ELSE Outcome(agents, agentOrder, assignments, created, "resolved", winner)

\* consensus: the CoordDecision is created, then the event is published.
ConsensusOutcome(participants, published) ==
    LET total == VoteTotal(participants, NoOverride)
        passed == total >= 5000
        created == Append(decisions, [kind |-> "consensus",
                                      weightSum |-> total, passed |-> passed])
    IN IF published = "raise"
       THEN Outcome(agents, agentOrder, assignments, created, "raised", FALSE)
       ELSE Outcome(agents, agentOrder, assignments, created, "decided", passed)

\* What a call does, given how its publishes end.
CallOutcome(call, published) ==
    CASE call.op = "register" -> RegisterAgentOutcome(call.agent, call.profile, published)
      [] call.op = "heartbeat" -> HeartbeatOutcome(call.agent, call.workload, published)
      [] call.op = "allocate" -> AllocateTaskOutcome(call.task, published)
      [] call.op = "rebalance" -> RebalanceOutcome(call.apply, published)
      [] call.op = "resolve" ->
             ResolveConflictOutcome(call.parties, call.priority, published)
      [] call.op = "consensus" ->
             ConsensusOutcome(call.participants, published)

\* Whether a call gets as far as its publish.
Publishes(call) ==
    CASE call.op = "register" -> TRUE
      [] call.op = "heartbeat" -> agents[call.agent].reg
      [] call.op = "allocate" -> Candidates(call.task) # <<>>
      [] call.op = "rebalance" -> TRUE
      [] call.op = "resolve" -> Parties(call.parties) # <<>>
      [] call.op = "consensus" -> TRUE

Published(call, env) == IF Publishes(call) THEN PublishExchange(env) ELSE "none"

PublishingRegister(a, p, env) ==
    LET call == [op |-> "register", agent |-> a, profile |-> p]
        out == CallOutcome(call, Published(call, env))
    IN /\ agents' = out.agents
       /\ agentOrder' = out.agentOrder
       /\ lastCoord' = [op |-> "register", call |-> call, published |-> Published(call, env),
                        status |-> out.status, result |-> out.result]
       /\ UNCHANGED <<assignments, decisions, allocPc, allocLocal, notCoord>>

PublishingHeartbeat(a, w, env) ==
    LET call == [op |-> "heartbeat", agent |-> a, workload |-> w]
        out == CallOutcome(call, Published(call, env))
    IN /\ agents' = out.agents
       /\ lastCoord' = [op |-> "heartbeat", call |-> call, published |-> Published(call, env),
                        status |-> out.status, result |-> out.result]
       /\ UNCHANGED <<agentOrder, assignments, decisions, allocPc, allocLocal, notCoord>>

PublishingAllocate(task, env) ==
    LET call == [op |-> "allocate", task |-> task]
        out == CallOutcome(call, Published(call, env))
    IN /\ Len(assignments) < MaxAssignments
       /\ agents' = out.agents
       /\ assignments' = out.assignments
       /\ lastCoord' = [op |-> "allocate", call |-> call, published |-> Published(call, env),
                        status |-> out.status, result |-> out.result]
       /\ UNCHANGED <<agentOrder, decisions, allocPc, allocLocal, notCoord>>

PublishingRebalance(apply, env) ==
    LET call == [op |-> "rebalance", apply |-> apply]
        out == CallOutcome(call, Published(call, env))
    IN /\ lastCoord' = [op |-> "rebalance", call |-> call, published |-> Published(call, env),
                        status |-> out.status, result |-> out.result]
       /\ UNCHANGED <<agents, agentOrder, assignments, decisions, allocPc, allocLocal,
                      notCoord>>

PublishingResolveConflict(parties, priority, env) ==
    LET call == [op |-> "resolve", parties |-> parties, priority |-> priority]
        out == CallOutcome(call, Published(call, env))
    IN /\ Len(decisions) < MaxDecisions
       /\ decisions' = out.decisions
       /\ lastCoord' = [op |-> "resolve", call |-> call, published |-> Published(call, env),
                        status |-> out.status, result |-> out.result]
       /\ UNCHANGED <<agents, agentOrder, assignments, allocPc, allocLocal, notCoord>>

PublishingConsensus(participants, env) ==
    LET call == [op |-> "consensus", participants |-> participants]
        out == CallOutcome(call, Published(call, env))
    IN /\ Len(decisions) < MaxDecisions
       /\ decisions' = out.decisions
       /\ lastCoord' = [op |-> "consensus", call |-> call, published |-> Published(call, env),
                        status |-> out.status, result |-> out.result]
       /\ UNCHANGED <<agents, agentOrder, assignments, allocPc, allocLocal, notCoord>>

NextPublish ==
    \/ \E a \in AgentIds, p \in PublishProfiles, env \in PublishEnvs :
          PublishingRegister(a, p, env)
    \/ \E a \in AgentIds, w \in PublishWorkloads, env \in PublishEnvs :
          PublishingHeartbeat(a, w, env)
    \/ \E task \in PublishTasks, env \in PublishEnvs : PublishingAllocate(task, env)
    \/ \E apply \in BOOLEAN, env \in PublishEnvs : PublishingRebalance(apply, env)
    \/ \E parties \in PartyLists, priority \in ConflictPriorities, env \in PublishEnvs :
          PublishingResolveConflict(parties, priority, env)
    \/ \E participants \in PartyLists, env \in PublishEnvs :
          PublishingConsensus(participants, env)

(***************************************************************************)
(* Self-Healing Engine                                                     *)
(***************************************************************************)

\* Bound of the self-healing model: the number of heal calls.
MaxHeals == 2

\* StrategyLibrary.list(): each strategy's actions (type and, for scale, delta).
LibraryNames ==
    {"restart_unhealthy", "rollback_config", "scale_service", "rebalance_load",
     "throttle_traffic", "purge_stuck", "recycle_container"}

StrategyActions(name) ==
    CASE name = "restart_unhealthy" -> << [type |-> "docker.restart", delta |-> 0] >>
      [] name = "rollback_config"   -> << [type |-> "config.rollback", delta |-> 0] >>
      [] name = "scale_service"     -> << [type |-> "scale", delta |-> 1] >>
      [] name = "rebalance_load"    -> << [type |-> "rebalance", delta |-> 0] >>
      [] name = "throttle_traffic"  -> << [type |-> "rate_limit", delta |-> 0] >>
      [] name = "purge_stuck"       -> << [type |-> "queue.purge", delta |-> 0] >>
      [] name = "recycle_container" -> << [type |-> "docker.recycle", delta |-> 0] >>

\* The strategy names the diagnosis rules recommend, and the library's.
StrategyNames == LibraryNames \cup {"increase_workers"}

\* typ.startswith("docker.")
DockerTypes == {"docker.restart", "docker.recycle"}

\* The recommended_strategies of the diagnoses (DiagnosisEngine.diagnose).
RecommendedLists ==
    { <<"scale_service", "restart_unhealthy", "throttle_traffic">>,
      <<"increase_workers", "rebalance_load", "purge_stuck">>,
      <<"scale_service", "restart_unhealthy">>,
      <<"restart_unhealthy", "recycle_container">>,
      <<"rollback_config", "restart_unhealthy">>,
      <<>> }

\* heal's strategy argument; NoStrategy is None.
NoStrategy == "none"
StrategyOverrides == {NoStrategy, "scale_service", "rollback_config"}

\* The context of a heal call: the verifier ("none": no verifier given) and the
\* adapters bound in it. At most one adapter is bound in a context.
Contexts ==
    { c \in [verify : {"none", "true", "false", "raises"},
             scaler : {"none", "bound", "raises"},
             gitops : {"none", "ok", "failed", "raises"},
             docker : {"unavailable", "ok", "raises"}] :
        Cardinality({k \in {"scaler", "gitops", "docker"} :
                        (k = "scaler" /\ c.scaler # "none")
                        \/ (k = "gitops" /\ c.gitops # "none")
                        \/ (k = "docker" /\ c.docker # "unavailable")}) <= 1 }

NoScore == [success |-> 0, attempts |-> 0]

\* StrategySelector.best: score(name) as a fraction num/den (0.5 for a strategy
\* without attempts).
RateNum(name) == IF scores[name].attempts = 0 THEN 1 ELSE scores[name].success
RateDen(name) == IF scores[name].attempts = 0 THEN 2 ELSE Max(1, scores[name].attempts)

RateLeq(n1, n2) == RateNum(n1) * RateDen(n2) <= RateNum(n2) * RateDen(n1)

\* A variant of Best that takes the last candidate of maximal score.
BestLast(candidates) ==
    LET best(i) == \A j \in 1..Len(candidates) : RateLeq(candidates[j], candidates[i])
        last == CHOOSE i \in 1..Len(candidates) :
                    best(i) /\ \A j \in (i + 1)..Len(candidates) : ~best(j)
    IN candidates[last]

\* max(candidates, key=score): the first candidate of maximal score.
Best(candidates) ==
    LET best(i) == \A j \in 1..Len(candidates) : RateLeq(candidates[j], candidates[i])
        first == CHOOSE i \in 1..Len(candidates) :
                     best(i) /\ \A j \in 1..(i - 1) : ~best(j)
    IN candidates[first]

\* A variant of RecordOutcome that counts every attempt as a success.
RecordOutcomeAlways(sc, name, success) ==
    [sc EXCEPT ![name] = [attempts |-> @.attempts + 1, success |-> @.success + 1]]

\* StrategySelector.record_outcome
RecordOutcome(sc, name, success) ==
    [sc EXCEPT ![name] = [attempts |-> @.attempts + 1,
                          success  |-> IF success THEN @.success + 1 ELSE @.success]]

\* RecoveryExecutor._verify
Verify(ctx) == ctx.verify \in {"none", "true"}

\* One step of the loop of RecoveryExecutor.execute: the entry appended to
\* applied_actions for an action.
ApplyAction(act, ctx) ==
    IF act.type \in DockerTypes /\ ctx.docker # "unavailable"
    THEN [type |-> act.type, delta |-> 0,
          status |-> IF ctx.docker = "ok" THEN "targets" ELSE "error"]
    ELSE IF act.type = "config.rollback"
    THEN [type |-> act.type, delta |-> 0,
          status |-> CASE ctx.gitops = "ok" -> "ok"
                       [] ctx.gitops = "failed" -> "failed"
                       [] ctx.gitops = "none" -> "simulated"
                       [] ctx.gitops = "raises" -> "error"]
    ELSE IF act.type = "scale"
    THEN [type |-> act.type, delta |-> act.delta,
          status |-> CASE ctx.scaler = "bound" -> "ok"
                       [] ctx.scaler = "none" -> "simulated"
                       [] ctx.scaler = "raises" -> "error"]
    ELSE IF act.type \in {"rebalance", "rate_limit", "queue.purge"}
    THEN [type |-> act.type, delta |-> 0, status |-> "simulated"]
    ELSE [type |-> act.type, delta |-> 0, status |-> "ok"]

\* The replicas the scaler adapter adds while an action is applied.
ScaledBy(act, ctx) ==
    IF act.type = "scale" /\ ctx.scaler = "bound" THEN act.delta ELSE 0

RECURSIVE ApplyAll(_, _)
ApplyAll(acts, ctx) ==
    IF acts = <<>> THEN <<>>
    ELSE <<ApplyAction(Head(acts), ctx)>> \o ApplyAll(Tail(acts), ctx)

RECURSIVE ScaledByAll(_, _)
ScaledByAll(acts, ctx) ==
    IF acts = <<>> THEN 0
    ELSE ScaledBy(Head(acts), ctx) + ScaledByAll(Tail(acts), ctx)

\* A variant of RollbackEntry that repeats the applied delta.
RollbackEntrySameDelta(act) ==
    IF act.type = "scale"
    THEN << [type |-> "scale", delta |-> act.delta, status |-> "ok"] >>
    ELSE << [type |-> act.type, delta |-> 0, status |-> "noop"] >>

\* RecoveryExecutor._rollback: the entry (or none) for one applied action.
RollbackEntry(act) ==
    IF act.type = "scale"
    THEN << [type |-> "scale", delta |-> 0 - act.delta, status |-> "ok"] >>
    ELSE IF act.type \in {"config.rollback", "rebalance", "rate_limit", "queue.purge"}
    THEN << [type |-> act.type, delta |-> 0, status |-> "noop"] >>
    ELSE IF act.type \in DockerTypes
    THEN << [type |-> act.type, delta |-> 0, status |-> "noop"] >>
    ELSE <<>>

\* RecoveryExecutor._rollback: the applied actions, last first.
RECURSIVE Rollback(_)
Rollback(applied) ==
    IF applied = <<>> THEN <<>>
    ELSE RollbackEntry(applied[Len(applied)]) \o Rollback(SubSeq(applied, 1, Len(applied) - 1))

\* RecoveryExecutor.execute: the returned outcome.
Execute(name, ctx, dryRun) ==
    IF name \notin LibraryNames
    THEN [kind |-> "unknown_strategy", applied |-> FALSE, verified |-> FALSE,
          actions |-> <<>>, rolled_back |-> <<>>]
    ELSE IF dryRun
    THEN [kind |-> "dry_run", applied |-> FALSE, verified |-> FALSE,
          actions |-> <<>>, rolled_back |-> <<>>]
    ELSE LET appliedActions == ApplyAll(StrategyActions(name), ctx)
             verified == Verify(ctx)
         IN [kind |-> "executed", applied |-> verified, verified |-> verified,
             actions |-> appliedActions,
             rolled_back |-> IF verified THEN <<>> ELSE Rollback(appliedActions)]

NoOutcome == [kind |-> "none", applied |-> FALSE, verified |-> FALSE,
              actions |-> <<>>, rolled_back |-> <<>>]

NoHeal == [op |-> "none", dryRun |-> FALSE, candidates |-> <<>>, chosen |-> NoStrategy,
           status |-> "none", outcome |-> NoOutcome]

\* SelfHealingService.heal(issue, context, dry_run, strategy); recommended is
\* issue.diagnosis.recommended_strategies, writeOk is whether the graph store
\* accepts the CREATE of the HealingAttempt.
Heal(recommended, ctx, dryRun, strategy, writeOk) ==
    LET candidates == IF strategy # NoStrategy THEN <<strategy>> ELSE recommended IN
    /\ healCalls < MaxHeals
    /\ healCalls' = healCalls + 1
    /\ UNCHANGED notHeal
    /\ IF candidates = <<>>
       THEN /\ lastHeal' = [NoHeal EXCEPT !.op = "heal", !.dryRun = dryRun,
                                          !.candidates = candidates,
                                          !.status = "no_strategy"]
            /\ UNCHANGED <<scores, healingAttempts, replicas>>
       ELSE LET chosen == Best(candidates)
                outcome == Execute(chosen, ctx, dryRun)
            IN /\ replicas' = IF outcome.kind = "executed"
                              THEN replicas + ScaledByAll(StrategyActions(chosen), ctx)
                              ELSE replicas
               /\ IF ~writeOk
                  THEN /\ lastHeal' = [NoHeal EXCEPT !.op = "heal", !.dryRun = dryRun,
                                          !.candidates = candidates,
                                          !.chosen = chosen, !.status = "raised",
                                          !.outcome = outcome]
                       /\ UNCHANGED <<scores, healingAttempts>>
                  ELSE /\ healingAttempts' = Append(healingAttempts,
                              [strategy |-> chosen, dryRun |-> dryRun,
                               applied |-> outcome.applied,
                               verified |-> IF outcome.kind = "executed"
                                            THEN outcome.verified ELSE outcome.applied])
                       /\ scores' = RecordOutcome(scores, chosen, outcome.applied)
                       /\ lastHeal' = [NoHeal EXCEPT !.op = "heal", !.dryRun = dryRun,
                                          !.candidates = candidates,
                                          !.chosen = chosen, !.status = "returned",
                                          !.outcome = outcome]

InitHeal ==
    /\ scores = [n \in StrategyNames |-> NoScore]
    /\ healingAttempts = <<>>
    /\ replicas = 0
    /\ healCalls = 0
    /\ lastHeal = NoHeal

NextHeal ==
    \E recommended \in RecommendedLists, ctx \in Contexts, dryRun \in BOOLEAN,
       strategy \in StrategyOverrides, writeOk \in BOOLEAN :
       Heal(recommended, ctx, dryRun, strategy, writeOk)

\* DiagnosisEngine.diagnose as a function of the anomalies it is given: at most
\* one anomaly per metric (a later one replaces an earlier one in the dict),
\* each with its z-score.  detect reports an anomaly when |z| >= 2.
Metrics == {"error_rate", "cpu_load", "memory_usage", "latency_p95", "queue_depth"}
NoAnomaly == 0
ZScores == {NoAnomaly, -4, 2, 4}
AnomalyMaps == [Metrics -> ZScores]

Abs(x) == IF x < 0 THEN -x ELSE x

Present(m, metric) == m[metric] # NoAnomaly

RuleCount == 5

\* The predicate of the i-th rule of the list.
RuleHolds(i, m) ==
    CASE i = 1 -> /\ Present(m, "error_rate")
                  /\ (Present(m, "cpu_load") \/ Present(m, "memory_usage"))
      [] i = 2 -> /\ Present(m, "latency_p95") /\ Abs(m["latency_p95"]) > 2
                  /\ Present(m, "queue_depth") /\ Abs(m["queue_depth"]) > 2
      [] i = 3 -> Present(m, "cpu_load") /\ m["cpu_load"] > 3
      [] i = 4 -> Present(m, "memory_usage") /\ m["memory_usage"] > 3
      [] i = 5 -> /\ Present(m, "error_rate")
                  /\ ~(Present(m, "cpu_load") \/ Present(m, "memory_usage"))

\* The outcome of the i-th rule of the list (confidence in hundredths).
RuleOutcome(i) ==
    CASE i = 1 -> [issue_type |-> "degradation", confidence |-> 80,
                   recommend |-> <<"scale_service", "restart_unhealthy", "throttle_traffic">>]
      [] i = 2 -> [issue_type |-> "backpressure", confidence |-> 75,
                   recommend |-> <<"increase_workers", "rebalance_load", "purge_stuck">>]
      [] i = 3 -> [issue_type |-> "resource_hotspot", confidence |-> 70,
                   recommend |-> <<"scale_service", "restart_unhealthy">>]
      [] i = 4 -> [issue_type |-> "memory_pressure", confidence |-> 70,
                   recommend |-> <<"restart_unhealthy", "recycle_container">>]
      [] i = 5 -> [issue_type |-> "configuration_or_dependency", confidence |-> 60,
                   recommend |-> <<"rollback_config", "restart_unhealthy">>]

UnknownDiagnosis == [issue_type |-> "unknown", confidence |-> 50, recommend |-> <<>>]

\* A variant of MatchingRule that takes the last rule that holds.
MatchingRuleLast(m) ==
    CHOOSE i \in 1..RuleCount :
        RuleHolds(i, m) /\ \A j \in (i + 1)..RuleCount : ~RuleHolds(j, m)

\* for predicate, outcome in rules: if predicate(m): return ...
MatchingRule(m) ==
    CHOOSE i \in 1..RuleCount : RuleHolds(i, m) /\ \A j \in 1..(i - 1) : ~RuleHolds(j, m)

Diagnose(m) ==
    IF \E i \in 1..RuleCount : RuleHolds(i, m) THEN RuleOutcome(MatchingRule(m))
    ELSE UnknownDiagnosis

DiagnoseProbe(m) ==
    /\ probe' = [op |-> "diagnose", anomalies |-> m, diagnosis |-> Diagnose(m)]
    /\ UNCHANGED notProbe

NextDiagnose == \E m \in AnomalyMaps : DiagnoseProbe(m)

\* AnomalyDetector.detect for one metric: its value and its baseline (mean
\* and standard deviation), all in one unit; a metric without a baseline
\* gets (value, max(1e-6, 0.05 * |value|)).
DetectValues == 0..20
DetectMeans == {8, 10}
DetectDeviations == {0, 1, 2, 3}

\* |z| compared with a whole number n, for z = (v - mu) / sd and z = 0.0 when
\* sd is 0.
ZAbove(v, mu, sd, n) == sd # 0 /\ Abs(v - mu) > n * sd
ZAtLeast(v, mu, sd, n) == sd # 0 /\ Abs(v - mu) >= n * sd

Severity(v, mu, sd) ==
    IF ZAbove(v, mu, sd, 3) THEN "high"
    ELSE IF ZAbove(v, mu, sd, 2) THEN "medium"
    ELSE "low"

\* Whether detect reports the metric, and with which severity.
Detect(v, known, mu, sd) ==
    IF ~known
    THEN [flagged |-> FALSE, severity |-> "low"]
    ELSE [flagged |-> ZAtLeast(v, mu, sd, 2), severity |-> Severity(v, mu, sd)]

DetectProbe(v, known, mu, sd) ==
    /\ probe' = [op |-> "detect", value |-> v, known |-> known, mean |-> mu, stdev |-> sd,
                 flagged |-> Detect(v, known, mu, sd).flagged,
                 severity |-> Detect(v, known, mu, sd).severity]
    /\ UNCHANGED notProbe

NextDetect ==
    \E v \in DetectValues, known \in BOOLEAN, mu \in DetectMeans, sd \in DetectDeviations :
       DetectProbe(v, known, mu, sd)

(***************************************************************************)
(* Knowledge Drift and Consensus                                           *)
(***************************************************************************)

\* Bound of the knowledge-graph model: the timestamps the graph store hands
\* out, one per write, from 1 to MaxClock - 1 (every row of one write gets
\* the same timestamp).
MaxClock == 4

EntityIds == {"E1", "A", "B"}
Predicates == {"locatedIn"}
\* The conflict that facts are inserted into and votes are cast on.
Subject == "E1"
Predicate == "locatedIn"
Objects == {"A", "B"}
Voters == {"u1", "u2"}
\* Confidences of inserted facts, in hundredths; NoConf is a fact without one.
NoConf == -1
Confidences == {NoConf, 40, 90}
Quorums == {-1, 0, 1, 3}
NoEntity == "none"

Triples == EntityIds \X Predicates \X EntityIds
GroupKeys == EntityIds \X Predicates

NoRelation == [exists |-> FALSE, state |-> "none", confidence |-> NoConf,
               version |-> 0, lastUpdated |-> 0, provenance |-> <<>>]

\* The id property of a ResolutionRequest node that has none.
NoId == "none"
\* request_id of the approve and reject calls.
ResolutionRequestIds == {"RR1", "E1"}

NoRequest == [exists |-> FALSE, at |-> 0, strategy |-> "none", options |-> <<>>,
              status |-> "none", id |-> NoId]

NoKGCall == [op |-> "none", status |-> "none", subject |-> NoEntity, winner |-> NoEntity,
             strategy |-> "none", dryRun |-> FALSE, escalate |-> FALSE,
             quorum |-> 0, topScore |-> 0, dups |-> <<>>, requestId |-> NoId]

RemediateStrategies == {"confidence", "recency"}
ResolveStrategies == {"votes", "confidence"}
Policies == {"prefer_latest", "prefer_high_confidence"}
\* duplicate_ids of the merge requests.
DuplicateLists == {<<"A">>, <<"B">>, <<"A", "B">>, <<"E1">>}

\* coalesce(r.confidence, 0.0)
Coalesce(c) == IF c = NoConf THEN 0 ELSE c

\* The objects of the relations of a (subject, predicate) group.
Group(rels, sid, pred) == {o \in EntityIds : rels[<<sid, pred, o>>].exists}

\* A function with a finite domain as a sequence of (oid, score) rows, in an
\* order fixed by the model (the graph store promises none).
RECURSIVE Rows(_)
Rows(f) ==
    IF DOMAIN f = {} THEN <<>>
    ELSE LET o == CHOOSE x \in DOMAIN f : TRUE
         IN <<[oid |-> o, score |-> f[o]]>> \o Rows([x \in DOMAIN f \ {o} |-> f[x]])

\* _score_options: the score of every object of the group.
ScoreOptions(sid, pred, strategy) ==
    [o \in Group(relations, sid, pred) |->
        IF strategy = "confidence"
        THEN Coalesce(relations[<<sid, pred, o>>].confidence)
        ELSE relations[<<sid, pred, o>>].lastUpdated]

\* opts.sort(reverse=True); opts[0][0]: an option of maximal score (the order
\* of the rows the graph store returns decides among equal scores).
Winners(opts) == {o \in DOMAIN opts : \A x \in DOMAIN opts : opts[x] <= opts[o]}

\* The Cypher SET shared by resolution and remediation: the winner's relation
\* becomes active, its siblings rejected, each with a new version.
Promote(rels, sid, pred, winner, now) ==
    [t \in Triples |->
        IF t[1] = sid /\ t[2] = pred /\ rels[t].exists
        THEN [rels[t] EXCEPT !.state = IF t[3] = winner THEN "active" ELSE "rejected",
                             !.lastUpdated = now,
                             !.version = @ + 1]
        ELSE rels[t]]

\* r.provenance = coalesce(r.provenance, []) + [entry], on a group.
AppendProvenance(rels, sid, pred, entry) ==
    [t \in Triples |->
        IF t[1] = sid /\ t[2] = pred /\ rels[t].exists
        THEN [rels[t] EXCEPT !.provenance = Append(@, entry)]
        ELSE rels[t]]

\* if dry_run: return the plan, before any query is run (the variant never
\* returns early).
PlanOnlyNever(dryRun) == FALSE

PlanOnly(dryRun) == dryRun

\* KnowledgeInsert.post with one fact (subject, Predicate, object).
InsertFact(sid, oid, conf, policy) ==
    LET t == <<sid, Predicate, oid>>
        old == relations[t]
        now == clock
        newConf == IF conf = NoConf THEN old.confidence
                   ELSE IF policy = "prefer_high_confidence"
                        THEN (IF old.confidence = NoConf THEN conf
                              ELSE Max(old.confidence, conf))
                        ELSE conf
    IN /\ clock < MaxClock
       /\ clock' = clock + 1
       /\ entities' = entities \cup {sid, oid}
       /\ relations' = [relations EXCEPT ![t] =
              [exists |-> TRUE,
               state |-> IF old.exists THEN old.state ELSE "active",
               confidence |-> newConf,
               version |-> old.version + 1,
               lastUpdated |-> now,
               provenance |-> Append(old.provenance, [at |-> now, source |-> "api"])]]
       /\ lastKG' = [NoKGCall EXCEPT !.op = "insert", !.status = "inserted", !.subject = sid]
       /\ UNCHANGED <<mergedInto, votes, resolutionRequests, notKG>>

\* A variant of EscalatedOptions that records no option.
EscalatedOptionsNone(opts) == <<>>

\* rr.options = [dict(oid=oid, score=score) for oid, score in opts]
EscalatedOptions(opts) == Rows(opts)

\* remediate_conflict(subject_id, predicate, strategy, dry_run, escalate)
RemediateConflict(sid, pred, strategy, dryRun, escalate) ==
    LET opts == ScoreOptions(sid, pred, strategy)
        now == clock
        call == [NoKGCall EXCEPT !.op = "remediate", !.subject = sid,
                                 !.dryRun = dryRun, !.escalate = escalate]
    IN IF DOMAIN opts = {}
       THEN /\ lastKG' = [call EXCEPT !.status = "no_options"]
            /\ UNCHANGED <<entities, mergedInto, relations, votes, resolutionRequests,
                           clock, notKG>>
       ELSE \E winner \in Winners(opts) :
            IF PlanOnly(dryRun)
            THEN /\ lastKG' = [call EXCEPT !.status = "dry_run", !.winner = winner]
                 /\ UNCHANGED <<entities, mergedInto, relations, votes, resolutionRequests,
                                clock, notKG>>
            ELSE IF escalate
            THEN /\ clock < MaxClock
                 /\ clock' = clock + 1
                 /\ resolutionRequests' = [resolutionRequests EXCEPT ![<<sid, pred>>] =
                        [exists |-> TRUE, at |-> now, strategy |-> strategy,
                         options |-> EscalatedOptions(opts), status |-> @.status,
                         id |-> @.id]]
                 /\ lastKG' = [call EXCEPT !.status = "escalated", !.winner = winner]
                 /\ UNCHANGED <<entities, mergedInto, relations, votes, notKG>>
            ELSE /\ clock < MaxClock
                 /\ clock' = clock + 1
                 /\ relations' = AppendProvenance(Promote(relations, sid, pred, winner, now),
                                     sid, pred,
                                     [at |-> now, action |-> "remediate", strategy |-> strategy])
                 /\ lastKG' = [call EXCEPT !.status = "applied", !.winner = winner]
                 /\ UNCHANGED <<entities, mergedInto, votes, resolutionRequests, notKG>>

\* KGResolutionRequests.get: the requests whose status is pending or unset.
PendingRequests(requests) ==
    {k \in GroupKeys :
        /\ requests[k].exists
        /\ (IF requests[k].status = "none" THEN "pending" ELSE requests[k].status) = "pending"}

\* MATCH (rr:ResolutionRequest {id: $id}) SET rr.status = status
MarkRequest(requests, reqId, status) ==
    [k \in GroupKeys |->
        IF requests[k].exists /\ requests[k].id # NoId /\ requests[k].id = reqId
        THEN [requests[k] EXCEPT !.status = status]
        ELSE requests[k]]

\* KGResolutionApprove.post: remediate_conflict(sid, pred, strategy,
\* dry_run=False, escalate=False), then the request is marked approved.
Approve(reqId, sid, pred, strategy) ==
    LET opts == ScoreOptions(sid, pred, strategy)
        now == clock
        call == [NoKGCall EXCEPT !.op = "approve", !.subject = sid, !.strategy = strategy,
                                 !.requestId = reqId]
    IN /\ resolutionRequests' = MarkRequest(resolutionRequests, reqId, "approved")
       /\ IF DOMAIN opts = {}
          THEN /\ lastKG' = [call EXCEPT !.status = "no_options"]
               /\ UNCHANGED <<relations, clock>>
          ELSE \E winner \in Winners(opts) :
               /\ clock < MaxClock
               /\ clock' = clock + 1
               /\ relations' = AppendProvenance(Promote(relations, sid, pred, winner, now),
                                   sid, pred,
                                   [at |-> now, action |-> "remediate", strategy |-> strategy])
               /\ lastKG' = [call EXCEPT !.status = "approved", !.winner = winner]
       /\ UNCHANGED <<entities, mergedInto, votes, notKG>>

\* KGResolutionReject.post
Reject(reqId) ==
    /\ resolutionRequests' = MarkRequest(resolutionRequests, reqId, "rejected")
    /\ lastKG' = [NoKGCall EXCEPT !.op = "reject", !.status = "rejected", !.requestId = reqId]
    /\ UNCHANGED <<entities, mergedInto, relations, votes, clock, notKG>>

\* KGVote.post: one VOTED edge per (voter, conflict, object), its value set
\* to the latest vote.
CastVote(voter, oid, val) ==
    /\ votes' = [votes EXCEPT ![<<voter, oid>>] = val]
    /\ lastKG' = [NoKGCall EXCEPT !.op = "vote", !.status = "ok", !.subject = Subject]
    /\ UNCHANGED <<entities, mergedInto, relations, resolutionRequests, clock, notKG>>

RECURSIVE SumVotes(_, _)
SumVotes(voterSet, oid) ==
    IF voterSet = {} THEN 0
    ELSE LET v == CHOOSE x \in voterSet : TRUE
         IN votes[<<v, oid>>] + SumVotes(voterSet \ {v}, oid)

\* RETURN r.oid AS oid, sum(r.value) AS score: one row per voted object.
VoteScores(sid, pred) ==
    [o \in {x \in Objects : /\ sid = Subject
                            /\ pred = Predicate
                            /\ \E v \in Voters : votes[<<v, x>>] # 0} |->
        SumVotes(Voters, o)]

\* KGResolve.post
Resolve(sid, pred, strategy, quorum) ==
    LET agg == IF strategy = "votes" THEN VoteScores(sid, pred)
               ELSE ScoreOptions(sid, pred, "confidence")
        now == clock
        call == [NoKGCall EXCEPT !.op = "resolve", !.subject = sid, !.strategy = strategy,
                                 !.quorum = quorum]
    IN IF DOMAIN agg = {}
       THEN /\ lastKG' = [call EXCEPT !.status = "no_options"]
            /\ UNCHANGED <<entities, mergedInto, relations, votes, resolutionRequests,
                           clock, notKG>>
       ELSE \E winner \in Winners(agg) :
            IF quorum # 0 /\ agg[winner] < quorum /\ strategy = "votes"
            THEN /\ lastKG' = [call EXCEPT !.status = "quorum_not_met", !.winner = winner,
                                           !.topScore = agg[winner]]
                 /\ UNCHANGED <<entities, mergedInto, relations, votes, resolutionRequests,
                                clock, notKG>>
            ELSE /\ clock < MaxClock
                 /\ clock' = clock + 1
                 /\ relations' = Promote(relations, sid, pred, winner, now)
                 /\ lastKG' = [call EXCEPT !.status = "resolved", !.winner = winner,
                                           !.topScore = agg[winner]]
                 /\ UNCHANGED <<entities, mergedInto, votes, resolutionRequests, notKG>>

\* A set as a sequence, in an order fixed by the model.
RECURSIVE SeqOfSet(_)
SeqOfSet(S) ==
    IF S = {} THEN <<>>
    ELSE LET x == CHOOSE y \in S : TRUE IN <<x>> \o SeqOfSet(S \ {x})

RECURSIVE Concat(_)
Concat(seqs) == IF seqs = <<>> THEN <<>> ELSE Head(seqs) \o Concat(Tail(seqs))

\* UNWIND $dups AS dup MATCH (d:Entity {id: dup})-[r:RELATED]->(o:Entity)
\* MATCH (t:Entity {id: $target}): the matched edges, duplicate by duplicate.
OutRows(rels, target, dups) ==
    IF target \notin entities THEN <<>>
    ELSE Concat([i \in 1..Len(dups) |->
             SeqOfSet({t \in Triples : t[1] = dups[i] /\ rels[t].exists})])

\* UNWIND $dups AS dup MATCH (s:Entity)-[r:RELATED]->(d:Entity {id: dup})
InRows(rels, target, dups) ==
    IF target \notin entities THEN <<>>
    ELSE Concat([i \in 1..Len(dups) |->
             SeqOfSet({t \in Triples : t[3] = dups[i] /\ rels[t].exists})])

\* MERGE (nr) SET nr += properties(r) SET nr.version ... DELETE r, for one row.
RewireRow(rels, r, nr, now, action) ==
    LET src == rels[r]
        old == rels[nr]
    IN [rels EXCEPT
           ![nr] = [exists |-> TRUE,
                    state |-> src.state,
                    confidence |-> IF src.confidence = NoConf THEN old.confidence
                                   ELSE src.confidence,
                    version |-> src.version + 1,
                    lastUpdated |-> now,
                    provenance |-> Append(src.provenance, [at |-> now, action |-> action])],
           ![r] = NoRelation]

RECURSIVE RewireOut(_, _, _, _)
RewireOut(rels, rows, target, now) ==
    IF rows = <<>> THEN rels
    ELSE LET r == Head(rows)
         IN RewireOut(RewireRow(rels, r, <<target, r[2], r[3]>>, now, "merge_rewire_out"),
                      Tail(rows), target, now)

RECURSIVE RewireIn(_, _, _, _)
RewireIn(rels, rows, target, now) ==
    IF rows = <<>> THEN rels
    ELSE LET r == Head(rows)
         IN RewireIn(RewireRow(rels, r, <<r[1], r[2], target>>, now, "merge_rewire_in"),
                     Tail(rows), target, now)

\* merge_entities(target_id, duplicate_ids, dry_run)
MergeEntities(target, dups, dryRun) ==
    LET now == clock
        call == [NoKGCall EXCEPT !.op = "merge", !.subject = target, !.dryRun = dryRun,
                                 !.dups = dups]
        afterOut == RewireOut(relations, OutRows(relations, target, dups), target, now)
        afterIn == RewireIn(afterOut, InRows(afterOut, target, dups), target, now)
    IN IF PlanOnly(dryRun)
       THEN /\ lastKG' = [call EXCEPT !.status = "dry_run"]
            /\ UNCHANGED <<entities, mergedInto, relations, votes, resolutionRequests,
                           clock, notKG>>
       ELSE /\ clock < MaxClock
            /\ clock' = clock + 1
            /\ relations' = afterIn
            /\ mergedInto' = [e \in EntityIds |->
                   IF e \in entities /\ e \in Range(dups) THEN target ELSE mergedInto[e]]
            /\ lastKG' = [call EXCEPT !.status = "merged"]
            /\ UNCHANGED <<entities, votes, resolutionRequests, notKG>>

\* attributes of a relation update: any properties, those the store keeps
\* for versioning and provenance included.
RelationAttributes ==
    { [confidence |-> 70], [state |-> "rejected"], [version |-> 0], [provenance |-> <<>>] }

\* SET r += attrs
SetAttributes(r, attrs) ==
    [k \in DOMAIN r |-> IF k \in DOMAIN attrs THEN attrs[k] ELSE r[k]]

\* KnowledgeRelationUpdate.post: the relation is created when absent.
UpdateRelation(sid, oid, attrs) ==
    LET t == <<sid, Predicate, oid>>
        now == clock
        old == relations[t]
        merged == IF old.exists THEN old ELSE [NoRelation EXCEPT !.state = "active"]
        set == SetAttributes(merged, attrs)
    IN /\ clock < MaxClock
       /\ clock' = clock + 1
       /\ entities' = entities \cup {sid, oid}
       /\ relations' = [relations EXCEPT ![t] =
              [set EXCEPT !.exists = TRUE,
                          !.lastUpdated = now,
                          !.version = @ + 1,
                          !.provenance = Append(@, [at |-> now, source |-> "api",
                                                    action |-> "update"])]]
       /\ lastKG' = [NoKGCall EXCEPT !.op = "update", !.status = "updated", !.subject = sid]
       /\ UNCHANGED <<mergedInto, votes, resolutionRequests, notKG>>

\* KnowledgeRelationDelete.post: deactivates the relation, 404 when absent.
DeactivateRelation(sid, oid) ==
    LET t == <<sid, Predicate, oid>>
        now == clock
    IN IF ~relations[t].exists
       THEN /\ lastKG' = [NoKGCall EXCEPT !.op = "deactivate", !.status = "not_found",
                                          !.subject = sid]
            /\ UNCHANGED <<entities, mergedInto, relations, votes, resolutionRequests,
                           clock, notKG>>
       ELSE /\ clock < MaxClock
            /\ clock' = clock + 1
            /\ relations' = [relations EXCEPT ![t] =
                   [@ EXCEPT !.state = "inactive",
                             !.lastUpdated = now,
                             !.version = @ + 1,
                             !.provenance = Append(@, [at |-> now, source |-> "api",
                                                       action |-> "deactivate"])]]
            /\ lastKG' = [NoKGCall EXCEPT !.op = "deactivate", !.status = "deactivated",
                                          !.subject = sid]
            /\ UNCHANGED <<entities, mergedInto, votes, resolutionRequests, notKG>>

\* KGRollback.post: the named object's relation becomes active, its siblings
\* rejected.
RollbackRelation(sid, pred, target) ==
    /\ clock < MaxClock
    /\ clock' = clock + 1
    /\ relations' = Promote(relations, sid, pred, target, clock)
    /\ lastKG' = [NoKGCall EXCEPT !.op = "rollback", !.status = "ok", !.subject = sid,
                                  !.winner = target]
    /\ UNCHANGED <<entities, mergedInto, votes, resolutionRequests, notKG>>

InitKG ==
    /\ entities = {}
    /\ mergedInto = [e \in EntityIds |-> NoEntity]
    /\ relations = [t \in Triples |-> NoRelation]
    /\ votes = [k \in Voters \X Objects |-> 0]
    /\ resolutionRequests = [k \in GroupKeys |-> NoRequest]
    /\ clock = 1
    /\ lastKG = NoKGCall

NextInsertFact ==
    \E oid \in Objects, conf \in Confidences, policy \in Policies :
        InsertFact(Subject, oid, conf, policy)

NextCastVote == \E voter \in Voters, oid \in Objects, val \in {-1, 1} : CastVote(voter, oid, val)

NextResolve ==
    \E strategy \in ResolveStrategies, quorum \in Quorums :
        Resolve(Subject, Predicate, strategy, quorum)

NextRemediateConflict ==
    \E sid \in EntityIds, strategy \in RemediateStrategies, dryRun \in BOOLEAN,
       escalate \in BOOLEAN :
        RemediateConflict(sid, Predicate, strategy, dryRun, escalate)

NextMergeEntities ==
    \E target \in EntityIds, dups \in DuplicateLists, dryRun \in BOOLEAN :
        MergeEntities(target, dups, dryRun)

NextRelations ==
    \/ NextInsertFact
    \/ \E oid \in Objects, attrs \in RelationAttributes : UpdateRelation(Subject, oid, attrs)
    \/ \E oid \in Objects : DeactivateRelation(Subject, oid)
    \/ \E target \in Objects : RollbackRelation(Subject, Predicate, target)

NextConsensus == NextInsertFact \/ NextCastVote \/ NextResolve

NextApprove ==
    \E reqId \in ResolutionRequestIds, sid \in EntityIds, strategy \in RemediateStrategies :
        Approve(reqId, sid, Predicate, strategy)

NextReject == \E reqId \in ResolutionRequestIds : Reject(reqId)

NextResolution == NextInsertFact \/ NextRemediateConflict \/ NextApprove \/ NextReject

NextDrift == NextInsertFact \/ NextRemediateConflict \/ NextMergeEntities

(***************************************************************************)
(* Agent Lifecycle Manager                                                 *)
(***************************************************************************)

\* Bounds of the lifecycle model: the creation requests made and the
\* retire_agent calls.
MaxRequests == 2
MaxRetires == 2

\* Request ids and agent ids are fresh uuids: request n is n, the agent the
\* deployment of request n creates is n, and 0 is an id no deployment made.
RequestIds == 1..MaxRequests
UnknownAgent == 0
DeployedAgentIds == {UnknownAgent} \cup RequestIds
AgentIdOf(r) == r

Stages == <<"design", "development", "testing", "deployment">>

NoDeployedAgent == [exists |-> FALSE, status |-> "none", retiredAt |-> 0]

NoRetire == [op |-> "none", agent |-> UnknownAgent, result |-> "none"]

\* The routing key published when a stage fails (the variant publishes one
\* key for every stage).
FailureEventUntyped(stage) == "failed"

FailureEvent(stage) ==
    CASE stage = "design" -> "design_failed"
      [] stage = "development" -> "development_failed"
      [] stage = "testing" -> "testing_failed"
      [] stage = "deployment" -> "deployment_failed"

\* self._active_requests.pop(request_id, None) (the variant keeps the request)
PopRequestNever(reqs, r) == reqs

PopRequest(reqs, r) == reqs \ {r}

\* A stage of request r ran and failed: its event is published and the worker
\* thread returns.
StageFailed(r, stage) ==
    /\ requestEvents' = [requestEvents EXCEPT ![r] = Append(@, FailureEvent(stage))]
    /\ pc' = [pc EXCEPT ![r] = "failed"]

\* _create_agent_request: the request enters the active set, is stored, the
\* created event is published and the worker thread is started.  When the
\* store raises, the call ends there.  Ids are handed out in order.
CreateAgentRequestEffect(r, storeOk) ==
    /\ pc[r] = "idle"
    /\ \A q \in RequestIds : q < r => pc[q] # "idle"
    /\ activeRequests' = activeRequests \cup {r}
    /\ IF storeOk
       THEN /\ artifacts' = [artifacts EXCEPT ![r] = @ \cup {"request"}]
            /\ requestEvents' = [requestEvents EXCEPT ![r] = Append(@, "created")]
            /\ pc' = [pc EXCEPT ![r] = "design"]
       ELSE /\ pc' = [pc EXCEPT ![r] = "unstored"]
            /\ UNCHANGED <<artifacts, requestEvents>>
    /\ UNCHANGED <<stagesRun, deployedAgents, deployedAt, deployedGraph, agentEvents, retireCalls,
                   lastLife, notManager>>

CreateAgentRequest(r, storeOk) ==
    CreateAgentRequestEffect(r, storeOk) /\ UNCHANGED mgrVars

\* _process_creation_request up to the end of _generate_agent_design, which
\* stores the design spec and answers None when anything in it raises.
Design(r, ok) ==
    /\ pc[r] = "design"
    /\ IF r \notin activeRequests
       THEN /\ pc' = [pc EXCEPT ![r] = "returned"]
            /\ UNCHANGED <<stagesRun, artifacts, requestEvents>>
       ELSE /\ stagesRun' = [stagesRun EXCEPT ![r] = Append(@, "design")]
            /\ IF ok
               THEN /\ artifacts' = [artifacts EXCEPT ![r] = @ \cup {"spec"}]
                    /\ pc' = [pc EXCEPT ![r] = "development"]
                    /\ UNCHANGED requestEvents
               ELSE /\ StageFailed(r, "design")
                    /\ UNCHANGED artifacts
    /\ UNCHANGED <<activeRequests, deployedAgents, deployedAt, deployedGraph, agentEvents, retireCalls,
                   lastLife, notLife>>

\* _develop_agent, which stores the implementation and answers None when
\* anything in it raises.
Develop(r, ok) ==
    /\ pc[r] = "development"
    /\ stagesRun' = [stagesRun EXCEPT ![r] = Append(@, "development")]
    /\ IF ok
       THEN /\ artifacts' = [artifacts EXCEPT ![r] = @ \cup {"implementation"}]
            /\ pc' = [pc EXCEPT ![r] = "testing"]
            /\ UNCHANGED requestEvents
       ELSE /\ StageFailed(r, "development")
            /\ UNCHANGED artifacts
    /\ UNCHANGED <<activeRequests, deployedAgents, deployedAt, deployedGraph, agentEvents, retireCalls,
                   lastLife, notLife>>

\* _test_agent and the branch of _process_creation_request on its result.
\* The shipped _test_agent is a placeholder that always passes; the result is
\* taken as an input here so that the handling of a failed test run, which
\* the repository's tests exercise by substituting the stage, is covered.
TestAgent(r, passed) ==
    /\ pc[r] = "testing"
    /\ stagesRun' = [stagesRun EXCEPT ![r] = Append(@, "testing")]
    /\ IF passed
       THEN /\ pc' = [pc EXCEPT ![r] = "deployment"]
            /\ UNCHANGED requestEvents
       ELSE StageFailed(r, "testing")
    /\ UNCHANGED <<activeRequests, artifacts, deployedAgents, deployedAt, deployedGraph, agentEvents,
                   retireCalls, lastLife, notLife>>

\* A variant of RegisterDeployedAgent that writes nothing.
RegisterDeployedAgentNever(graph, a) == graph

\* _register_deployed_agent: the DeployedAgent node of the agent is written.
RegisterDeployedAgent(graph, a) ==
    [graph EXCEPT ![a] = [exists |-> TRUE, status |-> "active", retiredAt |-> @.retiredAt]]

\* _deploy_agent, which registers the DeployedAgent node as its last step and
\* answers success=False when anything in it raises, and the branch of
\* _process_creation_request that publishes the failure.
DeployAgent(r, ok) ==
    /\ pc[r] = "deployment"
    /\ stagesRun' = [stagesRun EXCEPT ![r] = Append(@, "deployment")]
    /\ IF ok
       THEN /\ deployedGraph' = RegisterDeployedAgent(deployedGraph, AgentIdOf(r))
            /\ pc' = [pc EXCEPT ![r] = "registered"]
            /\ UNCHANGED requestEvents
       ELSE /\ StageFailed(r, "deployment")
            /\ UNCHANGED deployedGraph
    /\ UNCHANGED <<activeRequests, artifacts, deployedAgents, deployedAt, agentEvents,
                   retireCalls, lastLife, notLife>>

\* The rest of _process_creation_request after a successful deployment: the
\* agent enters _deployed_agents with its deployed_at, the deployed event is
\* published and the request leaves the active set.
CompleteDeployment(r) ==
    /\ pc[r] = "registered"
    /\ deployedAgents' = deployedAgents \cup {AgentIdOf(r)}
    /\ deployedAt' = [deployedAt EXCEPT ![AgentIdOf(r)] =
           1 + Cardinality({a \in DeployedAgentIds : deployedAt[a] > 0})]
    /\ requestEvents' = [requestEvents EXCEPT ![r] = Append(@, "deployed")]
    /\ activeRequests' = PopRequest(activeRequests, r)
    /\ pc' = [pc EXCEPT ![r] = "deployed"]
    /\ UNCHANGED <<stagesRun, artifacts, deployedGraph, agentEvents, retireCalls, lastLife,
                   notLife>>

\* retire_agent(agent_id): the graph update matches the DeployedAgent node if
\* there is one; the events are published and True returned for every id.
\* When the graph store raises, the call ends there.
RetireEffect(a, writeOk) ==
    /\ retireCalls < MaxRetires
    /\ retireCalls' = retireCalls + 1
    /\ IF writeOk
       THEN /\ deployedGraph' = [deployedGraph EXCEPT ![a] =
                   IF @.exists
                   THEN [@ EXCEPT !.status = "retired", !.retiredAt = retireCalls + 1]
                   ELSE @]
            /\ agentEvents' = [agentEvents EXCEPT ![a] = @ \o <<"retiring", "retired">>]
            /\ deployedAgents' = deployedAgents \ {a}
       ELSE UNCHANGED <<deployedGraph, agentEvents, deployedAgents>>

RetireAgent(a, writeOk) ==
    /\ RetireEffect(a, writeOk)
    /\ lastLife' = [op |-> "retire", agent |-> a,
                    result |-> IF writeOk THEN "true" ELSE "raised"]
    /\ UNCHANGED <<activeRequests, pc, stagesRun, requestEvents, artifacts, deployedAt,
                   notLife>>

\* avg_system_load of a system analysis, in hundredths; NoLoad is the None
\* that avg() gives when there is no PerformanceMetric of the last hour.
NoLoad == 999
LoadReadings == {NoLoad, 5, 10, 50}

\* perf.get("avg_system_load") or 0
AvgLoad(load) == IF load = NoLoad THEN 0 ELSE load

\* sorted(self._deployed_agents.items(), key=deployed_at_ts)[0]
Oldest(live) == CHOOSE a \in live : \A b \in live : deployedAt[a] <= deployedAt[b]

\* _retirement_assessment(system_analysis)
RetirementAssessmentEffect(load, writeOk) ==
    /\ IF AvgLoad(load) < 10 /\ Cardinality(deployedAgents) > 1
       THEN /\ RetireEffect(Oldest(deployedAgents), writeOk)
            /\ lastLife' = [op |-> "assess", agent |-> Oldest(deployedAgents),
                            result |-> IF writeOk THEN "true" ELSE "raised",
                            load |-> load]
       ELSE /\ lastLife' = [op |-> "assess", agent |-> UnknownAgent, result |-> "none",
                            load |-> load]
            /\ UNCHANGED <<retireCalls, deployedGraph, agentEvents, deployedAgents>>
    /\ UNCHANGED <<activeRequests, pc, stagesRun, requestEvents, artifacts, deployedAt,
                   notManager>>

RetirementAssessment(load, writeOk) ==
    RetirementAssessmentEffect(load, writeOk) /\ UNCHANGED mgrVars

InitLife ==
    /\ activeRequests = {}
    /\ pc = [r \in RequestIds |-> "idle"]
    /\ stagesRun = [r \in RequestIds |-> <<>>]
    /\ requestEvents = [r \in RequestIds |-> <<>>]
    /\ artifacts = [r \in RequestIds |-> {}]
    /\ deployedAgents = {}
    /\ deployedAt = [a \in DeployedAgentIds |-> 0]
    /\ deployedGraph = [a \in DeployedAgentIds |-> NoDeployedAgent]
    /\ agentEvents = [a \in DeployedAgentIds |-> <<>>]
    /\ retireCalls = 0
    /\ lastLife = NoRetire

NextLife ==
    \/ \E r \in RequestIds, storeOk \in BOOLEAN : CreateAgentRequest(r, storeOk)
    \/ \E r \in RequestIds, ok \in BOOLEAN : Design(r, ok)
    \/ \E r \in RequestIds, ok \in BOOLEAN : Develop(r, ok)
    \/ \E r \in RequestIds, passed \in BOOLEAN : TestAgent(r, passed)
    \/ \E r \in RequestIds, ok \in BOOLEAN : DeployAgent(r, ok)
    \/ \E r \in RequestIds : CompleteDeployment(r)
    \/ \E a \in DeployedAgentIds, writeOk \in BOOLEAN : RetireAgent(a, writeOk)
    \/ \E load \in LoadReadings, writeOk \in BOOLEAN : RetirementAssessment(load, writeOk)

(***************************************************************************)
(* Agent Lifecycle Manager: start, stop and the background loops           *)
(***************************************************************************)

\* Bound of the manager model: the start() calls that create loop threads.
MaxStarts == 2

\* start() creates one thread per loop; the threads of the n-th such start
\* are <<n, "need">> and <<n, "perf">>.
Generations == 1..MaxStarts
LoopKinds == {"need", "perf"}
Loops == Generations \X LoopKinds

NoMgrCall == [op |-> "none", created |-> FALSE, live |-> {}, attempted |-> {},
              event |-> "none"]

\* What the graph store answers to the retirement of each agent.
WriteOutcomes == [DeployedAgentIds -> BOOLEAN]

\* What a cycle of the need assessment finds: the analysis raises, no need of
\* priority 7 or more, or one such need.
Analyses == {"raises", "quiet", "gap"}

\* The load the performance monitoring reads in this part.
MonitorLoads == {50}

Born(g) == loopPc[<<g, "need">>] # "unborn"

NextGeneration == 1 + Cardinality({g \in Generations : Born(g)})

\* start(): nothing when already running; otherwise the flag is set, two new
\* threads are created and started, and the started event is published.
Start ==
    /\ IF running
       THEN /\ lastMgr' = [NoMgrCall EXCEPT !.op = "start"]
            /\ UNCHANGED <<running, loopPc>>
       ELSE /\ NextGeneration <= MaxStarts
            /\ running' = TRUE
            /\ loopPc' = [l \in Loops |->
                             IF l[1] = NextGeneration THEN "check" ELSE loopPc[l]]
            /\ lastMgr' = [NoMgrCall EXCEPT !.op = "start", !.created = TRUE,
                                            !.event = "started"]
    /\ UNCHANGED <<lifeVars, notManager>>

\* for agent_id in list(self._deployed_agents.keys()): self.retire_agent(agent_id),
\* inside one try block: the first retire_agent that raises ends the loop.
\* retire_agent is as in RetireEffect; the keys come in deployment order.
RECURSIVE RetireEach(_, _, _)
RetireEach(todo, st, writeOk) ==
    IF todo = {} THEN st
    ELSE LET a == Oldest(todo) IN
         IF ~writeOk[a]
         THEN [st EXCEPT !.attempted = @ \cup {a}, !.calls = @ + 1]
         ELSE RetireEach(todo \ {a},
                  [graph |-> [st.graph EXCEPT ![a] =
                                 IF @.exists
                                 THEN [@ EXCEPT !.status = "retired",
                                                !.retiredAt = st.calls + 1]
                                 ELSE @],
                   events |-> [st.events EXCEPT ![a] = @ \o <<"retiring", "retired">>],
                   live |-> st.live \ {a},
                   calls |-> st.calls + 1,
                   attempted |-> st.attempted \cup {a}],
                  writeOk)

\* stop(): the flag is cleared; each join waits for at most five seconds,
\* whether or not the thread has ended by then; the tracked agents are retired
\* and the stopped event is published.
Stop(writeOk) ==
    LET st == RetireEach(deployedAgents,
                         [graph |-> deployedGraph, events |-> agentEvents,
                          live |-> deployedAgents, calls |-> retireCalls,
                          attempted |-> {}],
                         writeOk)
    IN /\ retireCalls + Cardinality(deployedAgents) <= MaxRetires
       /\ running' = FALSE
       /\ deployedGraph' = st.graph
       /\ agentEvents' = st.events
       /\ deployedAgents' = st.live
       /\ retireCalls' = st.calls
       /\ lastMgr' = [NoMgrCall EXCEPT !.op = "stop", !.live = deployedAgents,
                                       !.attempted = st.attempted, !.event = "stopped"]
       /\ UNCHANGED <<loopPc, activeRequests, pc, stagesRun, requestEvents,
                      artifacts, deployedAt, lastLife, notManager>>

\* while self._running: the loop enters its next cycle or ends.
LoopCheck(l) ==
    /\ loopPc[l] = "check"
    /\ loopPc' = [loopPc EXCEPT ![l] = IF running THEN "cycle" ELSE "exited"]
    /\ UNCHANGED <<running, lastMgr, lifeVars, notManager>>

\* A variant of AfterCycle in which an exception of the cycle ends the thread.
AfterCycleUncaught(raised) == IF raised THEN "exited" ELSE "check"

\* Where a loop is after a cycle: the exception of a cycle is caught and
\* logged, the thread sleeps and comes back to the test of the flag.
AfterCycle(raised) == "check"

\* One cycle of _need_assessment_loop: a need of priority 7 or more becomes a
\* creation request (request ids are handed out in order).
NeedCycle(g, analysis, storeOk) ==
    /\ loopPc[<<g, "need">>] = "cycle"
    /\ IF analysis = "gap"
       THEN \E r \in RequestIds : CreateAgentRequestEffect(r, storeOk)
       ELSE UNCHANGED <<lifeVars, notManager>>
    /\ loopPc' = [loopPc EXCEPT ![<<g, "need">>] =
                     AfterCycle(analysis = "raises" \/ (analysis = "gap" /\ ~storeOk))]
    /\ UNCHANGED <<running, lastMgr>>

\* One cycle of _performance_monitoring_loop: the analysis, then the
\* retirement assessment, whose exceptions are caught apart.
PerfCycle(g, analysisOk, load, writeOk) ==
    /\ loopPc[<<g, "perf">>] = "cycle"
    /\ IF analysisOk
       THEN RetirementAssessmentEffect(load, writeOk)
       ELSE UNCHANGED <<lifeVars, notManager>>
    /\ loopPc' = [loopPc EXCEPT ![<<g, "perf">>] = AfterCycle(~analysisOk)]
    /\ UNCHANGED <<running, lastMgr>>

InitMgr ==
    /\ running = FALSE
    /\ loopPc = [l \in Loops |-> "unborn"]
    /\ lastMgr = NoMgrCall

NextLoops ==
    \/ Start
    \/ \E writeOk \in WriteOutcomes : Stop(writeOk)
    \/ \E l \in Loops : LoopCheck(l)
    \/ \E g \in Generations, analysis \in Analyses, storeOk \in BOOLEAN :
          NeedCycle(g, analysis, storeOk)
    \/ \E g \in Generations, analysisOk \in BOOLEAN, load \in MonitorLoads,
          writeOk \in BOOLEAN : PerfCycle(g, analysisOk, load, writeOk)

\* stop() after creation pipelines that succeed.
NextStop ==
    \/ \E r \in RequestIds : CreateAgentRequest(r, TRUE)
    \/ \E r \in RequestIds : Design(r, TRUE)
    \/ \E r \in RequestIds : Develop(r, TRUE)
    \/ \E r \in RequestIds : TestAgent(r, TRUE)
    \/ \E r \in RequestIds : DeployAgent(r, TRUE)
    \/ \E r \in RequestIds : CompleteDeployment(r)
    \/ \E writeOk \in WriteOutcomes : Stop(writeOk)

(***************************************************************************)
(* Specifications                                                          *)
(***************************************************************************)

Init == InitCoord /\ InitHeal /\ InitKG /\ InitLife /\ InitMgr /\ probe = NoProbe

SpecCoord == Init /\ [][NextCoord]_vars

SpecRace == Init /\ [][NextRace]_vars

SpecAgreement == Init /\ [][NextAgreement]_vars

SpecPublish == Init /\ [][NextPublish]_vars

SpecScore == Init /\ [][NextScore]_vars

SpecHeal == Init /\ [][NextHeal]_vars

SpecDiagnose == Init /\ [][NextDiagnose]_vars

SpecDetect == Init /\ [][NextDetect]_vars

SpecConsensus == Init /\ [][NextConsensus]_vars

SpecDrift == Init /\ [][NextDrift]_vars

SpecResolution == Init /\ [][NextResolution]_vars

SpecRelations == Init /\ [][NextRelations]_vars

SpecLife == Init /\ [][NextLife]_vars

SpecLoops == Init /\ [][NextLoops]_vars

\* The loop threads are scheduled: a loop that can take a step does so.
SpecLoopsFair ==
    /\ SpecLoops
    /\ \A l \in Loops : WF_vars(LoopCheck(l))
    /\ \A g \in Generations :
          /\ WF_vars(\E analysis \in Analyses, storeOk \in BOOLEAN :
                         NeedCycle(g, analysis, storeOk))
          /\ WF_vars(\E analysisOk \in BOOLEAN, load \in MonitorLoads, writeOk \in BOOLEAN :
                         PerfCycle(g, analysisOk, load, writeOk))

SpecStop == Init /\ [][NextStop]_vars

(***************************************************************************)
(* Claims about the Coordination Service                                   *)
(***************************************************************************)

\* C1: allocateTask returns allocated=true with agent A only if A is registered
\* and every requirement of the task is among A's capabilities, and it returns
\* allocated=false (no_capable_agent) exactly when no registered agent has all
\* of the task's requirements.
C1_AllocationEligibility ==
    lastCoord.op = "allocate" =>
        /\ lastCoord.status = "allocated" =>
               /\ agents[lastCoord.chosen].reg
               /\ \A r \in lastCoord.requirements : r \in agents[lastCoord.chosen].caps
        /\ lastCoord.status = "no_capable_agent" <=>
               ~ \E a \in AgentIds :
                     /\ agents[a].reg
                     /\ \A r \in lastCoord.requirements : r \in agents[a].caps

\* An allocation of a task with two requirements went to an agent while another
\* registered agent lacks one of them.
C1_Witness ==
    /\ lastCoord.op = "allocate"
    /\ lastCoord.status = "allocated"
    /\ Cardinality(lastCoord.requirements) = 2
    /\ \E a \in AgentIds :
           agents[a].reg /\ ~(lastCoord.requirements \subseteq agents[a].caps)

\* C10: a successful allocateTask changes the registry only by setting the
\* chosen agent's workload to min(1.0, previous + 0.1) and appends exactly one
\* Assignment naming that agent; an allocateTask that is not allocated, or whose
\* Assignment write fails, changes no workload and persists no Assignment.
C10_AllocationFrame ==
    [][ lastCoord'.op = "allocate" =>
          IF lastCoord'.status = "allocated"
          THEN LET c == lastCoord'.chosen IN
               /\ agents' = [agents EXCEPT
                                ![c].workload = IF agents[c].workload + 10 > 100
                                                THEN 100 ELSE agents[c].workload + 10]
               /\ agentOrder' = agentOrder
               /\ Len(assignments') = Len(assignments) + 1
               /\ SubSeq(assignments', 1, Len(assignments)) = assignments
               /\ assignments'[Len(assignments')].agentId = c
          ELSE /\ agents' = agents
               /\ agentOrder' = agentOrder
               /\ assignments' = assignments ]_vars

\* An allocation went to an agent whose workload was within 0.1 of the cap.
C10_Witness ==
    /\ lastCoord.op = "allocate"
    /\ lastCoord.status = "allocated"
    /\ agents[lastCoord.chosen].workload = 100
    /\ Len(assignments) = 1

\* C20: a publish that fails raises no error to the caller of the operation
\* (registerAgent, heartbeat, allocateTask, rebalance, resolveConflict,
\* consensus), and the result returned and the registry and graph state left
\* behind are those of the same call with a successful publish.
C20_PublishFailureHarmless ==
    [][lastCoord'.published \in {"false", "raise"}
       => LET twin == CallOutcome(lastCoord'.call, "true")
          IN /\ lastCoord'.status # "raised"
             /\ lastCoord'.status = twin.status
             /\ lastCoord'.result = twin.result
             /\ agents' = twin.agents
             /\ agentOrder' = twin.agentOrder
             /\ assignments' = twin.assignments
             /\ decisions' = twin.decisions]_vars

(***************************************************************************)
(* Claims about the Self-Healing Engine                                    *)
(***************************************************************************)

\* C4: heal with dryRun=true changes nothing: the strategy selector's success
\* and attempt counters are the same after the call as before it, and the call
\* issues no graph-store write.
C4_HealDryRunPure ==
    [][ (lastHeal'.op = "heal" /\ lastHeal'.dryRun /\ healCalls' = healCalls + 1) =>
            /\ scores' = scores
            /\ healingAttempts' = healingAttempts ]_vars

\* The success rate of a strategy, as the fraction num/den: successes over
\* attempts, and 1/2 for a strategy without recorded attempts.
SuccessRate(name) ==
    IF scores[name].attempts = 0 THEN [num |-> 1, den |-> 2]
    ELSE [num |-> scores[name].success, den |-> scores[name].attempts]

RateBelow(n1, n2) ==
    SuccessRate(n1).num * SuccessRate(n2).den < SuccessRate(n2).num * SuccessRate(n1).den

C24_DetectThresholds ==
    (probe.op = "detect" /\ probe.known /\ probe.stdev > 0) =>
        LET dist == Abs(probe.value - probe.mean) IN
        /\ probe.flagged <=> (dist >= 2 * probe.stdev)
        /\ probe.flagged =>
              probe.severity = (IF dist > 3 * probe.stdev THEN "high" ELSE "medium")

\* C25: when verification fails after a scale action was applied through a
\* bound scaler adapter, the heal leaves the replicas of the service as they
\* were before it.
C25_ScaleRolledBack ==
    [][(/\ healCalls' = healCalls + 1
        /\ lastHeal'.outcome.kind = "executed"
        /\ ~lastHeal'.outcome.verified
        /\ \E i \in 1..Len(lastHeal'.outcome.actions) :
               /\ lastHeal'.outcome.actions[i].type = "scale"
               /\ lastHeal'.outcome.actions[i].status = "ok")
       => replicas' = replicas]_vars

\* C6: when verification fails after execute() applied N actions, rolled_back
\* has exactly N entries, one per applied action in reverse order, and the entry
\* of a scale action carries the negated delta; when verification passes,
\* rolled_back is empty and applied is true.
C6_RollbackCompleteness ==
    (lastHeal.op = "heal" /\ lastHeal.outcome.kind = "executed") =>
        LET out == lastHeal.outcome
            n == Len(out.actions)
        IN /\ n = Len(StrategyActions(lastHeal.chosen))
           /\ ~out.verified =>
                 /\ ~out.applied
                 /\ Len(out.rolled_back) = n
                 /\ \A i \in 1..n :
                       /\ out.rolled_back[i].type = out.actions[n + 1 - i].type
                       /\ out.actions[n + 1 - i].type = "scale" =>
                             out.rolled_back[i].delta + out.actions[n + 1 - i].delta = 0
           /\ out.verified => (out.rolled_back = <<>> /\ out.applied)

\* Verification failed after scale_service applied its scale action of delta +1.
C6_Witness ==
    /\ lastHeal.op = "heal"
    /\ lastHeal.outcome.kind = "executed"
    /\ ~lastHeal.outcome.verified
    /\ Len(lastHeal.outcome.actions) = 1
    /\ lastHeal.outcome.actions[1].type = "scale"
    /\ lastHeal.outcome.actions[1].delta = 1
    /\ Len(lastHeal.outcome.rolled_back) = 1

\* C11: of two agents that differ only in workload, the one with the higher
\* workload never has the higher allocation score, and of two agents that
\* differ only in perfScore, the one with the higher perfScore never has the
\* lower allocation score.
C11_ScoringMonotonicity ==
    probe.op = "score" =>
        /\ (probe.perfA = probe.perfB /\ probe.workloadA > probe.workloadB)
               => probe.scoreA <= probe.scoreB
        /\ (probe.workloadA = probe.workloadB /\ probe.perfA > probe.perfB)
               => probe.scoreA >= probe.scoreB

\* C16: workload updates to an agent take effect as if serialized per agent
\* id, so none is lost: if k allocations choose the same agent and no
\* heartbeat for it intervenes, its workload ends at min(1.0, initial workload
\* + 0.1 * k).
C16_NoLostUpdate ==
    (\A t \in Threads : allocPc[t] = "idle") =>
        \A a \in AgentIds :
            agents[a].reg =>
                LET k == Cardinality({i \in 1..Len(assignments) : assignments[i].agentId = a})
                IN agents[a].workload = (IF 10 * k > 100 THEN 100 ELSE 10 * k)

\* C17: after any sequence of registerAgent, heartbeat (with any supplied
\* workload, values outside [0,1] included) and allocateTask calls, every
\* registered agent's workload is within [0,1].
C17_WorkloadRange ==
    \A a \in AgentIds : agents[a].reg => (0 <= agents[a].workload /\ agents[a].workload <= 100)

\* A heartbeat that reported a workload above 1.0 left the agent at 1.0, with
\* no allocation made.
C17_Witness ==
    /\ lastCoord.op = "heartbeat"
    /\ lastCoord.status = "ok"
    /\ agents[lastCoord.agent].workload = 100
    /\ assignments = <<>>

RECURSIVE RegisteredWeightSum(_, _)
RegisteredWeightSum(participants, weights) ==
    IF participants = <<>> THEN 0
    ELSE LET a == Head(participants)
             w == IF ~agents[a].reg THEN 0
                  ELSE IF weights[a] # NoWeight THEN 100 * weights[a]
                  ELSE IF agents[a].perf * (100 - agents[a].workload) < 1000 THEN 1000
                  ELSE agents[a].perf * (100 - agents[a].workload)
         IN w + RegisteredWeightSum(Tail(participants), weights)

\* C12: consensus reports passed=true if and only if the sum, over the
\* registered participants, of each one's weight (the explicit override when
\* given, else max(0.1, perfScore * (1 - workload))) is at least 0.5; a call in
\* which no participant is registered has weight sum 0 and does not pass.
C12_ConsensusThreshold ==
    (lastCoord.op = "consensus" /\ lastCoord.status = "decided") =>
        (lastCoord.passed <=>
            RegisteredWeightSum(lastCoord.participants, lastCoord.weights) >= 5000)

\* The conditions of the diagnosis rules, by issue type.
Degradation(m) ==
    m["error_rate"] # 0 /\ (m["cpu_load"] # 0 \/ m["memory_usage"] # 0)
Backpressure(m) ==
    m["latency_p95"] \notin {-2, -1, 0, 1, 2} /\ m["queue_depth"] \notin {-2, -1, 0, 1, 2}
ResourceHotspot(m) == m["cpu_load"] > 3
MemoryPressure(m) == m["memory_usage"] > 3
ConfigurationOrDependency(m) ==
    m["error_rate"] # 0 /\ m["cpu_load"] = 0 /\ m["memory_usage"] = 0

\* C13: diagnose returns the outcome of the first rule, in the order
\* degradation, backpressure, resource_hotspot, memory_pressure,
\* configuration_or_dependency, whose condition holds, and returns unknown
\* with confidence 0.5 and no recommended strategies exactly when no rule's
\* condition holds.
C13_DiagnoseFirstMatch ==
    probe.op = "diagnose" =>
        LET m == probe.anomalies
            t == probe.diagnosis.issue_type
        IN /\ t = (IF Degradation(m) THEN "degradation"
                   ELSE IF Backpressure(m) THEN "backpressure"
                   ELSE IF ResourceHotspot(m) THEN "resource_hotspot"
                   ELSE IF MemoryPressure(m) THEN "memory_pressure"
                   ELSE IF ConfigurationOrDependency(m) THEN "configuration_or_dependency"
                   ELSE "unknown")
           /\ t = "unknown" <=> probe.diagnosis.recommend = <<>>
           /\ t = "unknown" => probe.diagnosis.confidence = 50
           /\ t = "degradation" => probe.diagnosis.confidence = 80
           /\ t = "backpressure" => probe.diagnosis.confidence = 75
           /\ t \in {"resource_hotspot", "memory_pressure"} => probe.diagnosis.confidence = 70
           /\ t = "configuration_or_dependency" => probe.diagnosis.confidence = 60

\* An error spike under CPU pressure, with latency and queue depth anomalous
\* and the CPU above three deviations, was diagnosed as degradation: three
\* rules hold and the first one won.
C13_Witness ==
    /\ probe.op = "diagnose"
    /\ probe.anomalies["error_rate"] = 4
    /\ probe.anomalies["cpu_load"] = 4
    /\ probe.anomalies["latency_p95"] = 4
    /\ probe.anomalies["queue_depth"] = -4
    /\ probe.diagnosis.issue_type = "degradation"

(***************************************************************************)
(* Claims about Knowledge Drift and Consensus                              *)
(***************************************************************************)

\* C2: after a non-dry-run, non-escalated remediateConflict, or a vote-based
\* resolve that reports resolved=true, on a (subject, predicate) group that
\* has at least one relation, exactly one relation of the group is active and
\* every other relation of the group is rejected.
C2_ResolutionExclusivity ==
    LET group == Group(relations, lastKG.subject, Predicate)
    IN (/\ \/ lastKG.op = "remediate" /\ lastKG.status = "applied"
           \/ lastKG.op = "resolve" /\ lastKG.strategy = "votes"
                                    /\ lastKG.status = "resolved"
        /\ group # {})
       => \E w \in group :
              /\ relations[<<lastKG.subject, Predicate, w>>].state = "active"
              /\ \A o \in group \ {w} :
                     relations[<<lastKG.subject, Predicate, o>>].state = "rejected"

\* C3: vote-based resolution with quorum Q never promotes a winner whose
\* aggregated vote score is below Q: whenever the top score is less than Q it
\* answers quorum_not_met and changes no relation.
C3_QuorumGate ==
    [][(/\ lastKG'.op = "resolve"
        /\ lastKG'.strategy = "votes"
        /\ lastKG'.status # "no_options"
        /\ lastKG'.topScore < lastKG'.quorum)
       => (/\ lastKG'.status = "quorum_not_met"
           /\ relations' = relations)]_vars

\* C5: remediateConflict(dryRun=true) and mergeEntities(dryRun=true) issue no
\* graph-store write: every relation, entity and ResolutionRequest is
\* unchanged by the call, also when escalate is set together with dryRun.
C5_DryRunPure ==
    [][(lastKG'.op \in {"remediate", "merge"} /\ lastKG'.dryRun)
       => UNCHANGED <<entities, mergedInto, relations, resolutionRequests>>]_vars

\* A dry run with escalate set planned the remediation of a group of two
\* conflicting relations.
C5_Witness ==
    /\ lastKG.op = "remediate"
    /\ lastKG.status = "dry_run"
    /\ lastKG.dryRun
    /\ lastKG.escalate
    /\ Cardinality(Group(relations, lastKG.subject, Predicate)) = 2

\* C14: remediateConflict(escalate=true, dryRun=false) on a group with at
\* least one relation persists a ResolutionRequest for that (subject,
\* predicate) holding the scored options and changes no relation's state,
\* version, lastUpdated or provenance.
C14_EscalateFrame ==
    [][(/\ lastKG'.op = "remediate"
        /\ lastKG'.escalate
        /\ ~lastKG'.dryRun
        /\ Group(relations, lastKG'.subject, Predicate) # {})
       => LET sid == lastKG'.subject
              rr == resolutionRequests'[<<sid, Predicate>>]
          IN /\ lastKG'.status = "escalated"
             /\ rr.exists
             /\ Range(rr.options) =
                    {[oid |-> o,
                      score |-> IF rr.strategy = "confidence"
                                THEN (IF relations[<<sid, Predicate, o>>].confidence = NoConf
                                      THEN 0
                                      ELSE relations[<<sid, Predicate, o>>].confidence)
                                ELSE relations[<<sid, Predicate, o>>].lastUpdated] :
                     o \in Group(relations, sid, Predicate)}
             /\ relations' = relations]_vars

\* An escalation recorded a request for a group of two conflicting relations.
C14_Witness ==
    /\ lastKG.op = "remediate"
    /\ lastKG.status = "escalated"
    /\ Cardinality(Group(relations, lastKG.subject, Predicate)) = 2
    /\ Len(resolutionRequests[<<lastKG.subject, Predicate>>].options) = 2

\* C18: a relation's provenance list is append-only: no knowledge-graph
\* operation removes or replaces a provenance entry of a relation that exists
\* both before and after the operation.
C18_ProvenanceAppendOnly ==
    [][\A t \in Triples :
          (relations[t].exists /\ relations'[t].exists)
          => IsPrefix(relations[t].provenance, relations'[t].provenance)]_vars

\* C19: a relation's version is monotonic: every operation that modifies a
\* relation existing before the operation leaves its version strictly greater
\* than before, and no operation ever lowers it.
C19_VersionMonotonic ==
    [][\A t \in Triples :
          (relations[t].exists /\ relations'[t].exists)
          => /\ relations'[t].version >= relations[t].version
             /\ relations'[t] # relations[t] => relations'[t].version > relations[t].version]_vars

\* C26: after mergeEntities(target, duplicates, dryRun=false) with the target
\* not among the duplicates, no relation has a duplicate as subject or
\* object, every relation that was incident to a duplicate exists with the
\* same predicate and the duplicate endpoint replaced by the target, and
\* every duplicate entity still exists with mergedInto equal to the target.
C26_MergeRewiresAll ==
    [][(/\ lastKG'.op = "merge"
        /\ lastKG'.status = "merged"
        /\ clock' = clock + 1
        /\ lastKG'.subject \notin Range(lastKG'.dups)) =>
          LET target == lastKG'.subject
              duplicates == Range(lastKG'.dups)
              moved(e) == IF e \in duplicates THEN target ELSE e
          IN /\ \A r \in Triples :
                   relations'[r].exists => (r[1] \notin duplicates /\ r[3] \notin duplicates)
             /\ \A r \in Triples :
                   (relations[r].exists /\ (r[1] \in duplicates \/ r[3] \in duplicates))
                       => relations'[<<moved(r[1]), r[2], moved(r[3])>>].exists
             /\ \A d \in duplicates \cap entities :
                   d \in entities' /\ mergedInto'[d] = target]_vars

\* C27: a ResolutionRequest created by remediateConflict(escalate=true) is
\* listed as pending until a decision is made on it; after approve or reject
\* is called for that request it is no longer listed as pending, approve
\* applies the remediation to the relations of the group, and reject changes
\* no relation.
C27_DecisionEndsPending ==
    /\ [](\A k \in GroupKeys :
            (resolutionRequests[k].exists /\ resolutionRequests[k].status = "none")
                => k \in PendingRequests(resolutionRequests))
    /\ [][(lastKG'.op = "approve" /\ lastKG'.status = "approved" /\ clock' = clock + 1) =>
            LET k == <<lastKG'.subject, Predicate>>
            IN /\ resolutionRequests[k].exists => k \notin PendingRequests(resolutionRequests')
               /\ \A o \in Group(relations, k[1], k[2]) :
                     /\ relations'[<<k[1], k[2], o>>].state =
                            (IF o = lastKG'.winner THEN "active" ELSE "rejected")
                     /\ relations'[<<k[1], k[2], o>>].version =
                            relations[<<k[1], k[2], o>>].version + 1]_vars
    /\ [][(lastKG'.op = "reject" /\ lastKG' # lastKG) =>
            /\ relations' = relations
            /\ \A k \in GroupKeys :
                  (resolutionRequests[k].exists /\ resolutionRequests[k].id = lastKG'.requestId)
                      => k \notin PendingRequests(resolutionRequests')]_vars

(***************************************************************************)
(* Claims about the Agent Lifecycle Manager                                *)
(***************************************************************************)

FailureEvents == {"design_failed", "development_failed", "testing_failed",
                  "deployment_failed"}

FailuresOf(r) == {i \in 1..Len(requestEvents[r]) : requestEvents[r][i] \in FailureEvents}

\* C7: retire(agentId) for an agent id that is unknown or already retired
\* returns false, emits no retiring or retired event and changes neither the
\* live deployed set nor the graph.
C7_RetireIdempotent ==
    [][\A a \in DeployedAgentIds :
          (/\ retireCalls' = retireCalls + 1
           /\ lastLife'.agent = a
           /\ lastLife'.result # "raised"
           /\ (a \notin deployedAgents \/ deployedGraph[a].status = "retired"))
          => (/\ lastLife'.result = "false"
              /\ agentEvents' = agentEvents
              /\ deployedAgents' = deployedAgents
              /\ deployedGraph' = deployedGraph)]_vars

\* C8: for every processed CreationRequest the stages run in the order design,
\* development, testing, deployment; at the first stage that fails exactly one
\* failure event, of that stage's own type, is emitted, no later stage runs, no
\* deployed event is emitted, and the request is never processed again.
C8_StageOrder ==
    /\ [](\A r \in RequestIds :
            /\ IsPrefix(stagesRun[r], Stages)
            /\ Cardinality(FailuresOf(r)) <= 1
            /\ (FailuresOf(r) # {}) <=> (pc[r] = "failed")
            /\ pc[r] = "failed" =>
                  /\ stagesRun[r] # <<>>
                  /\ requestEvents[r][Len(requestEvents[r])] =
                         stagesRun[r][Len(stagesRun[r])] \o "_failed"
                  /\ \A i \in 1..Len(requestEvents[r]) : requestEvents[r][i] # "deployed")
    /\ [][\A r \in RequestIds :
            pc[r] = "failed" =>
                /\ pc'[r] = "failed"
                /\ stagesRun'[r] = stagesRun[r]
                /\ requestEvents'[r] = requestEvents[r]]_vars

\* A request ran all four stages and failed at deployment, while another
\* failed at design.
C8_Witness ==
    \E r, q \in RequestIds :
        /\ pc[r] = "failed"
        /\ stagesRun[r] = Stages
        /\ requestEvents[r] = <<"created", "deployment_failed">>
        /\ pc[q] = "failed"
        /\ stagesRun[q] = <<"design">>

C28_ArtifactBeforeNextStep ==
    \A r \in RequestIds :
        /\ (pc[r] = "design" \/ stagesRun[r] # <<>>) => "request" \in artifacts[r]
        /\ (pc[r] = "development" \/ "development" \in Range(stagesRun[r]))
               => "spec" \in artifacts[r]
        /\ (pc[r] = "testing" \/ "testing" \in Range(stagesRun[r]))
               => "implementation" \in artifacts[r]
        /\ "deployed" \in Range(requestEvents[r]) => deployedGraph[AgentIdOf(r)].exists
        /\ AgentIdOf(r) \in deployedAgents => deployedGraph[AgentIdOf(r)].exists

\* One request went through the whole pipeline and its agent is live, while
\* the agent of another is registered in the graph and not yet live.
C28_Witness ==
    \E r, q \in RequestIds :
        /\ pc[r] = "deployed"
        /\ artifacts[r] = {"request", "spec", "implementation"}
        /\ "deployed" \in Range(requestEvents[r])
        /\ AgentIdOf(r) \in deployedAgents
        /\ deployedGraph[AgentIdOf(r)].exists
        /\ pc[q] = "registered"
        /\ deployedGraph[AgentIdOf(q)].exists
        /\ AgentIdOf(q) \notin deployedAgents

\* C21: a background loop ends only at a test of the running flag that finds
\* it false, so it never ends while the flag is true, not even after a cycle
\* that raised; a loop that tests the flag when it is false ends there; and
\* when the flag stays false from some point on, every loop ends.
C21_LoopsRunUntilStopped ==
    /\ [][\A l \in Loops :
            /\ (loopPc[l] # "exited" /\ loopPc'[l] = "exited")
                  => (loopPc[l] = "check" /\ ~running)
            /\ (loopPc[l] = "check" /\ loopPc'[l] # "check" /\ ~running)
                  => loopPc'[l] = "exited"]_vars
    /\ (<>[](~running)) => <>[](\A l \in Loops : loopPc[l] \in {"unborn", "exited"})

\* The need-assessment loop of the first start went through two cycles that
\* raised (both requests were left unstored) and ended after the stop.
C21_Witness ==
    /\ ~running
    /\ loopPc[<<1, "need">>] = "exited"
    /\ loopPc[<<1, "perf">>] = "exited"
    /\ \A r \in RequestIds : pc[r] = "unstored"
    /\ \A g \in Generations \ {1} : ~Born(g)

\* C29: stop() calls retire_agent for every agent that is in the deployed set,
\* whether or not an earlier retirement raised, and ends with the stopped
\* event.
C29_StopRetiresAll ==
    lastMgr.op = "stop" => (lastMgr.attempted = lastMgr.live /\ lastMgr.event = "stopped")

\* C30: at no time are two need-assessment loops, or two performance
\* monitoring loops, in a cycle.
C30_SingleLoopPerKind ==
    \A k \in LoopKinds : Cardinality({g \in Generations : loopPc[<<g, k>>] = "cycle"}) <= 1

\* C15: a retirement-assessment cycle retires an agent only if the average
\* system load is below 0.1 and more than one agent is in the deployed set, and
\* then retires exactly one agent, the one with the earliest deployment time;
\* in every other case the cycle leaves the deployed set unchanged.
C15_RetirementCycle ==
    [][(lastLife'.op = "assess" /\ pc' = pc /\ deployedAgents' # deployedAgents)
       => /\ lastLife'.load # NoLoad
          /\ lastLife'.load < 10
          /\ Cardinality(deployedAgents) > 1
          /\ \E a \in deployedAgents :
                /\ deployedAgents' = deployedAgents \ {a}
                /\ \A b \in deployedAgents : deployedAt[a] <= deployedAt[b]]_vars

====
